---- MODULE Spec2Model ----
(***************************************************************************)
(* Model of the two crawlers kept in src/CIXIU2.0.py: the embroidery       *)
(* crawler (lines 1-1484) and the T-shirt crawler (lines 1486-2202).       *)
(* Each is a separate program with its own ledger database, its own        *)
(* orchestrator (run / scrape) and its own download_zip_file.  The         *)
(* variable `variant` says which of the two programs a behaviour is a run  *)
(* of.                                                                     *)
(*                                                                         *)
(* Specifications:                                                         *)
(*   SpecDb   the ledger and page-cursor stores driven through their API   *)
(*   Spec     the orchestrators (run + process_subpage, scrape +           *)
(*            process_download), with interruption and restart             *)
(*   SpecZip  download_zip_file of either program, statement by statement  *)
(*   SpecZipLive  SpecZip with weak fairness on the steps of the call      *)
(*   SpecSolve    solve_captcha_and_click_submit with solveCaptcha         *)
(*   SpecWait     AntiAntiCrawler.smart_wait applied to one request        *)
(*   SpecPace     the break checks of run / scrape against the item count  *)
(*   SpecLive     Spec with weak fairness on the steps of run and scrape   *)
(*   SpecCtl      the AntiAntiCrawler object: its counter and its clock    *)
(*   SpecMove     process_download moving the PNGs into save_root          *)
(*   SpecMoveLive SpecMove with weak fairness on its steps                 *)
(***************************************************************************)
EXTENDS Integers, Sequences, FiniteSets, TLC

VARIABLES
    variant,          \* "embroidery" | "tshirt": which program is running
    crawled_urls,     \* embroidery ledger table (rows)
    scraped_urls,     \* T-shirt ledger table (rows)
    page_progress,    \* embroidery cursor table: sequence of rows, index = id
    db_ret,           \* the last store call and what it returned
    \* ---- orchestrator (run / scrape) ----
    pc,               \* position of the orchestrator
    run_no,           \* how many times the program has been started
    start_page,       \* run(): page_progress["current_page"] read at start
    page_num,         \* loop variable of run() / scrape()
    listed,           \* hrefs the current listing page showed
    page_links,       \* links the orchestrator iterates over on this page
    idx,              \* 1-based position in page_links
    enc_status,       \* ledger status of the current URL when it was encountered
    item_log,         \* effects performed for the current item, in order
    img_success,      \* process_subpage locals
    pdf_success,
    zip_success,
    has_png,          \* process_download: png_files is non-empty
    upd_log,          \* update_page_progress calls of the current page iteration
    raised,           \* an exception reached the page iteration's handler
    last_update,      \* argument of the last completed update_page_progress (0: none)
    page_log,         \* this run's page iterations in order: the page and whether
                      \* its listing was fetched or the iteration raised before that
    db_closes,        \* calls of the ledger's close() in this run
    page_quits,       \* calls of the browser's quit() in this run
    exit_path,        \* how this run ended ("none" while it has not)
    got,              \* current_page the last get_page_progress returned (0: none)
    ps_ret,           \* what process_subpage returned for the current item
    stop_scraping,    \* scrape(): the stop flag
    diff_days,        \* scrape(): diff.days of the current item
    api_marked,       \* SpecDb: URLs given to mark_url_crawled / mark_scraped so far
    remarked,         \* SpecDb: a URL was marked again, with another status
    completed,        \* URLs whose processing ran to its end: the artifacts found
                      \* were saved and the final status was written
    \* ---- download_zip_file ----
    z_pc,             \* position inside download_zip_file
    z_ret,            \* what it returned
    attempt,          \* for attempt in range(max_retries)
    download_button,  \* the Locate step found a control
    before_files,     \* the "before" snapshot of the directory listing
    wait_attempt,     \* iterations the current poll loop has run
    locates,          \* Locate passes started
    snap_at_trigger,  \* the snapshot recorded before the current trigger
    dir_exists,       \* os.path.exists(download_path)
    dir_files,        \* names in the download directory
    zip_k,            \* poll iteration that first sees a new .zip (0: none yet)
    captcha_seen,     \* a challenge marker was found during this call
    gained_zip,       \* a .zip name was written during this call
    blocked,          \* this attempt found no control, or its trigger reported
                      \* failure, and no challenge was found or the resolver
                      \* reported false
    stale,            \* this attempt's trigger raised a stale-element fault
    refreshed,        \* the page was refreshed on the way to the next Locate
    after_events,     \* what this attempt did after it was blocked or stale
    solves,           \* calls of the resolver in this outer attempt (up to 2)
    \* ---- solve_captcha_and_click_submit / RecaptchaSolver.solveCaptcha ----
    s_pc,             \* position inside the resolver
    s_ret,            \* what solve_captcha_and_click_submit returned
    challenge_present,\* a verification challenge is on the page
    solver_calls,     \* calls of solveCaptcha made by this resolver call
    solver_out,       \* how solveCaptcha ended
    submit_found,     \* the submit control was found
    submit_clicked,   \* the submit control was clicked
    sc_obs,           \* solveCaptcha: the last look at the checkbox, where it was
                      \* made and what was read
    \* ---- AntiAntiCrawler.smart_wait ----
    request_count,    \* self.request_count
    wait_calls,       \* smart_wait calls made in this behaviour
    current_hour,     \* datetime.now().hour read by the last call
    multiplier,       \* its local multiplier, in tenths
    request_factor,   \* its local request_factor, in tenths
    wait_type,        \* arguments of the last call
    min_time,
    max_time,
    fat_tail,         \* random.random() < 0.2 in the last call
    wait_time,        \* what the last call returned, in milliseconds
    \* ---- the rest policy inside run() / scrape() ----
    p_pc,             \* position of the orchestrator's loop
    total_processed,  \* self.total_processed
    session_ticks,    \* time since session_start_time when last read, in hours
    total_links,      \* items of the current listing page
    p_idx,            \* items of the current page already handled
    rest_due,         \* the count reached a multiple of the interval and no
                      \* short rest was taken since
    started_due,      \* an item was processed while a rest was due
    check_n,          \* items_processed given to the last pair of checks
                      \* (-1: none yet)
    long_hours,       \* elapsed_hours check_long_run_protection computed
    long_coin,        \* random.random() < 0.4 (FALSE when not drawn)
    long_ret,         \* what check_long_run_protection returned
    short_ret,        \* what check_short_break returned
    short_rests,      \* short rests taken at the count check_n (up to MaxRests)
    \* ---- the pacing controller as an object (AntiAntiCrawler) ----
    now,              \* time.time(), in ticks since construction
    session_start_time,
    last_break_end,   \* the clock when the last take_big_break returned
                      \* (-1: no long rest yet)
    stats_emitted,    \* the last operation emitted the throughput statistics
    ctl_op,           \* the last operation of the controller and its result
    \* ---- process_download: the PNGs of one archive moved into save_root ----
    m_pc,             \* position inside the for loop and get_unique_filename
    save_root,        \* names that exist in save_root
    final_title,      \* the cleaned title
    png_left,         \* PNG files of the archive not moved yet
    counter,          \* get_unique_filename: counter
    new_filename,     \* get_unique_filename: new_filename (then unique_name)
    moved,            \* names the PNGs were moved to, in order
    clobbered         \* a move had an existing name as its target

dbVars == <<crawled_urls, scraped_urls, page_progress, db_ret>>
orchVars == <<pc, run_no, start_page, page_num, listed, page_links, idx,
              enc_status, item_log, img_success, pdf_success, zip_success,
              has_png, upd_log, raised, last_update, page_log, db_closes,
              page_quits, exit_path>>
auxVars == <<got, ps_ret, stop_scraping, diff_days, api_marked, remarked,
            completed>>
zipLocals == <<attempt, download_button, before_files, wait_attempt>>
zipHist == <<locates, snap_at_trigger>>
dirVars == <<dir_exists, dir_files>>
solveVars == <<s_pc, s_ret, challenge_present, solver_calls, solver_out,
               submit_found, submit_clicked, sc_obs>>
waitVars == <<request_count, wait_calls, current_hour, multiplier,
              request_factor, wait_type, min_time, max_time, fat_tail,
              wait_time>>
breakVars == <<p_pc, total_processed, session_ticks, total_links, p_idx,
               rest_due, started_due, check_n, long_hours, long_coin,
               long_ret, short_ret, short_rests>>
ctlVars == <<now, session_start_time, last_break_end, stats_emitted, ctl_op>>
moveVars == <<m_pc, save_root, final_title, png_left, counter, new_filename,
              moved, clobbered>>
paceVars == <<waitVars, breakVars, ctlVars, moveVars>>
attHist == <<blocked, stale, refreshed, after_events, solves>>
zipAux == <<zip_k, captcha_seen, gained_zip, solveVars>>
zipVars == <<z_pc, z_ret, zipLocals, zipHist, dirVars, zipAux, attHist>>
vars == <<variant, dbVars, orchVars, got, ps_ret, stop_scraping, diff_days,
          api_marked, remarked, completed, z_pc, z_ret, attempt, download_button,
          before_files, wait_attempt, locates, snap_at_trigger, dir_exists,
          dir_files, zip_k, captcha_seen, gained_zip, s_pc, s_ret,
          challenge_present, solver_calls, solver_out, submit_found,
          submit_clicked, sc_obs, paceVars, attHist>>

----------------------------------------------------------------------------
(* Bounds of the model *)

\* number of distinct item URLs
MaxUrls == 2
\* pages of the listing (self.TOTAL_PAGES is 3339 in the program)
TOTAL_PAGES == 2
\* rows the cursor table may grow to in SpecDb
MaxRows == 2
\* how many times the program is started (first start + restarts)
MaxRuns == 2

(* Program constants *)

\* total_pages column default / value written by every insert
DEFAULT_TOTAL_PAGES == 3339

URLS == 1..MaxUrls
BASE_URL == "embroidery-designs"
BASES == {BASE_URL, "other-base"}
STATUSES == {"pending", "success", "partial_success", "failed", "downloaded"}
\* the statuses the spec calls "done"
DoneStatuses == {"success", "partial_success", "downloaded"}
\* error_message / download_path values, by what they say
ERRORS == {"", "err"}
PATHS == {"", "path"}

----------------------------------------------------------------------------
(* Ledger store *)

LedgerRow(url, status, error_message, download_path) ==
    [url |-> url, status |-> status, error_message |-> error_message,
     download_path |-> download_path]

\* a plain INSERT, on a table without a key on url
InsertNoReplace(table, row) == table \cup {row}

\* INSERT OR REPLACE on a table whose url column is UNIQUE / PRIMARY KEY:
\* the conflicting row is deleted and the new row inserted.
InsertOrReplaceByUrl(table, row) ==
    {r \in table : r.url # row.url} \cup {row}

\* embroidery: SELECT 1 FROM crawled_urls WHERE url = ?   (no status filter)
is_url_crawled(table, url) ==
    \E r \in table : r.url = url

\* embroidery: INSERT OR REPLACE INTO crawled_urls (...)
mark_url_crawled(table, url, download_path, status, error_message) ==
    InsertOrReplaceByUrl(table, LedgerRow(url, status, error_message, download_path))

\* a lookup that only knows the final status
is_scraped_success_only(table, url) ==
    \E r \in table : r.url = url /\ r.status = "success"

\* T-shirt: SELECT 1 ... WHERE url = ? AND status IN ('success','downloaded','partial_success')

is_scraped(table, url) ==
    \E r \in table : r.url = url /\ r.status \in {"success", "downloaded", "partial_success"}

\* T-shirt: INSERT OR REPLACE INTO scraped_urls (...)
mark_scraped(table, url, status, error_message, download_path) ==
    InsertOrReplaceByUrl(table, LedgerRow(url, status, error_message, download_path))

\* the ledger of the running program, and its two calls
Ledger == IF variant = "embroidery" THEN crawled_urls ELSE scraped_urls

LedgerLookup(url) ==
    IF variant = "embroidery" THEN is_url_crawled(crawled_urls, url)
    ELSE is_scraped(scraped_urls, url)

StatusOf(table, url) ==
    IF \E r \in table : r.url = url
    THEN (CHOOSE r \in table : r.url = url).status
    ELSE "none"

----------------------------------------------------------------------------
(* Page cursor store (embroidery program only) *)

ProgressRow(base_url, current_page) ==
    [base_url |-> base_url, current_page |-> current_page,
     total_pages |-> DEFAULT_TOTAL_PAGES]

RowsOf(table, base_url) ==
    {i \in 1..Len(table) : table[i].base_url = base_url}

Min(S) == CHOOSE x \in S : \A y \in S : x <= y
Max(S) == CHOOSE x \in S : \A y \in S : x >= y

\* SELECT current_page ... WHERE base_url = ?  + fetchone(): base_url is not
\* unique, rows come in id order, fetchone takes the first.
\* No row: the initial row (base_url, 1, 3339) is inserted and 1 returned.
get_page_progress_table(table, base_url) ==
    IF RowsOf(table, base_url) # {} THEN table
    ELSE Append(table, ProgressRow(base_url, 1))

\* a default cursor that is the last page when the store has no row
get_page_progress_default_last(table, base_url) ==
    IF RowsOf(table, base_url) = {} THEN TOTAL_PAGES + 1
    ELSE table[Min(RowsOf(table, base_url))].current_page

get_page_progress(table, base_url) ==
    IF RowsOf(table, base_url) # {}
    THEN table[Min(RowsOf(table, base_url))].current_page
    ELSE 1

\* INSERT OR REPLACE INTO page_progress (base_url, current_page, total_pages):
\* the only unique column is the autoincrement id, which is not given, so no
\* row ever conflicts and every call appends a row.
update_page_progress(table, base_url, current_page) ==
    Append(table, ProgressRow(base_url, current_page))

----------------------------------------------------------------------------
(* SpecDb: the stores driven through their API with arbitrary arguments *)

NoRet == [op |-> "none"]

NoZipRet == [ok |-> FALSE, path |-> "None", line |-> 0]

\* solve_captcha_and_click_submit is not running
\* the checkbox has not been looked at
NoObs == [at |-> "none", frame |-> FALSE, aria |-> FALSE, cls |-> FALSE,
          mark |-> FALSE]

InitSolveIdle ==
    /\ s_pc = "idle"
    /\ s_ret = FALSE
    /\ challenge_present = FALSE
    /\ solver_calls = 0
    /\ solver_out = "none"
    /\ submit_found = FALSE
    /\ submit_clicked = FALSE
    /\ sc_obs = NoObs

\* download_zip_file is not running
InitZipIdle ==
    /\ InitSolveIdle
    /\ zip_k = 0
    /\ captcha_seen = FALSE
    /\ gained_zip = FALSE
    /\ blocked = FALSE
    /\ stale = FALSE
    /\ refreshed = FALSE
    /\ after_events = {}
    /\ solves = 0
    /\ z_pc = "idle"
    /\ z_ret = NoZipRet
    /\ attempt = 0
    /\ download_button = FALSE
    /\ before_files = {}
    /\ wait_attempt = 0
    /\ locates = 0
    /\ snap_at_trigger = {}
    /\ dir_exists = FALSE
    /\ dir_files = {}

\* smart_wait has not been called
InitWaitIdle ==
    /\ request_count = 0
    /\ wait_calls = 0
    /\ current_hour = 0
    /\ multiplier = 0
    /\ request_factor = 0
    /\ wait_type = "none"
    /\ min_time = -1
    /\ max_time = -1
    /\ fat_tail = FALSE
    /\ wait_time = 0

\* the orchestrator's loop has not been entered
InitBreakIdle ==
    /\ p_pc = "idle"
    /\ total_processed = 0
    /\ session_ticks = 0
    /\ total_links = 0
    /\ p_idx = 0
    /\ rest_due = FALSE
    /\ started_due = FALSE
    /\ check_n = -1
    /\ long_hours = 0
    /\ long_coin = FALSE
    /\ long_ret = FALSE
    /\ short_ret = FALSE
    /\ short_rests = 0
    /\ now = 0
    /\ session_start_time = 0
    /\ last_break_end = -1
    /\ stats_emitted = FALSE
    /\ ctl_op = [op |-> "init"]

\* process_download has not been called
InitMoveIdle ==
    /\ m_pc = "idle"
    /\ save_root = {}
    /\ final_title = <<>>
    /\ png_left = 0
    /\ counter = 0
    /\ new_filename = <<>>
    /\ moved = <<>>
    /\ clobbered = FALSE

\* the orchestrator's variables before the program is started
InitOrchIdle ==
    /\ pc = "idle"
    /\ run_no = 0
    /\ start_page = 0
    /\ page_num = 0
    /\ listed = <<>>
    /\ page_links = <<>>
    /\ idx = 0
    /\ enc_status = "none"
    /\ item_log = <<>>
    /\ img_success = FALSE
    /\ pdf_success = FALSE
    /\ zip_success = FALSE
    /\ has_png = FALSE
    /\ upd_log = <<>>
    /\ raised = FALSE
    /\ last_update = 0
    /\ page_log = <<>>
    /\ db_closes = 0
    /\ page_quits = 0
    /\ exit_path = "none"
    /\ got = 0
    /\ ps_ret = FALSE
    /\ stop_scraping = FALSE
    /\ diff_days = 0
    /\ api_marked = {}
    /\ remarked = FALSE
    /\ completed = {}

InitDb ==
    /\ variant \in {"embroidery", "tshirt"}
    /\ crawled_urls = {}
    /\ scraped_urls = {}
    /\ page_progress = <<>>
    /\ db_ret = NoRet
    /\ InitOrchIdle
    /\ InitWaitIdle
    /\ InitBreakIdle
    /\ InitMoveIdle
    /\ InitZipIdle

\* embroidery: db_manager.mark_url_crawled(url, ..., status, error_message)
DbMarkUrlCrawled ==
    /\ variant = "embroidery"
    /\ \E u \in URLS, s \in STATUSES, e \in ERRORS, p \in PATHS :
         /\ crawled_urls' = mark_url_crawled(crawled_urls, u, p, s, e)
         /\ api_marked' = api_marked \cup {u}
         /\ remarked' = (remarked \/ StatusOf(crawled_urls, u) \notin {"none", s})
         /\ db_ret' = [op |-> "mark", url |-> u, status |-> s,
                       error_message |-> e, download_path |-> p]
    /\ UNCHANGED <<got, ps_ret, stop_scraping, diff_days, completed, zipVars, paceVars, variant,
                   scraped_urls, page_progress, orchVars>>

\* embroidery: db_manager.is_url_crawled(url)
DbIsUrlCrawled ==
    /\ variant = "embroidery"
    /\ \E u \in URLS :
         db_ret' = [op |-> "lookup", url |-> u, val |-> is_url_crawled(crawled_urls, u)]
    /\ UNCHANGED <<auxVars, zipVars, paceVars, variant, crawled_urls, scraped_urls,
                   page_progress, orchVars>>

\* T-shirt: db.mark_scraped(url, status, error_message, download_path)
DbMarkScraped ==
    /\ variant = "tshirt"
    /\ \E u \in URLS, s \in STATUSES, e \in ERRORS, p \in PATHS :
         /\ scraped_urls' = mark_scraped(scraped_urls, u, s, e, p)
         /\ api_marked' = api_marked \cup {u}
         /\ remarked' = (remarked \/ StatusOf(scraped_urls, u) \notin {"none", s})
         /\ db_ret' = [op |-> "mark", url |-> u, status |-> s,
                       error_message |-> e, download_path |-> p]
    /\ UNCHANGED <<got, ps_ret, stop_scraping, diff_days, completed, zipVars, paceVars, variant,
                   crawled_urls, page_progress, orchVars>>

\* T-shirt: db.is_scraped(url)
DbIsScraped ==
    /\ variant = "tshirt"
    /\ \E u \in URLS :
         db_ret' = [op |-> "lookup", url |-> u, val |-> is_scraped(scraped_urls, u)]
    /\ UNCHANGED <<auxVars, zipVars, paceVars, variant, crawled_urls, scraped_urls,
                   page_progress, orchVars>>

\* embroidery: db_manager.get_page_progress(base_url)
DbGetPageProgress ==
    /\ variant = "embroidery"
    /\ \E b \in BASES :
         /\ Len(get_page_progress_table(page_progress, b)) <= MaxRows
         /\ page_progress' = get_page_progress_table(page_progress, b)
         /\ db_ret' = [op |-> "get", base_url |-> b,
                       val |-> get_page_progress(page_progress, b)]
    /\ UNCHANGED <<auxVars, zipVars, paceVars, variant, crawled_urls, scraped_urls,
                   orchVars>>

\* embroidery: db_manager.update_page_progress(base_url, current_page)
DbUpdatePageProgress ==
    /\ variant = "embroidery"
    /\ Len(page_progress) < MaxRows
    /\ \E b \in BASES, p \in 1..(TOTAL_PAGES + 1) :
         /\ page_progress' = update_page_progress(page_progress, b, p)
         /\ db_ret' = [op |-> "update", base_url |-> b, current_page |-> p]
    /\ UNCHANGED <<auxVars, zipVars, paceVars, variant, crawled_urls, scraped_urls,
                   orchVars>>

NextDb ==
    \/ DbMarkUrlCrawled
    \/ DbIsUrlCrawled
    \/ DbMarkScraped
    \/ DbIsScraped
    \/ DbGetPageProgress
    \/ DbUpdatePageProgress

SpecDb == InitDb /\ [][NextDb]_vars

----------------------------------------------------------------------------
(* The orchestrators.  The listing site is the environment: every fetch of  *)
(* a listing page shows some sequence of item URLs, and every browser call   *)
(* either works or raises.                                                    *)

SeqsUpTo(S, n) == UNION {[1..k -> S] : k \in 0..n}
Range(s) == {s[i] : i \in 1..Len(s)}

\* for href in ...: if href and href not in links: links.append(href)
RECURSIVE Dedup(_)
Dedup(s) ==
    IF s = <<>> THEN <<>>
    ELSE LET front == Dedup(SubSeq(s, 1, Len(s) - 1))
             last == s[Len(s)]
         IN IF last \in Range(front) THEN front ELSE Append(front, last)

\* for url in links: if is_url_crawled(url): crawled_count += 1 else: new_links.append(url)
RECURSIVE FilterCrawled(_, _)
FilterCrawled(table, s) ==
    IF s = <<>> THEN <<>>
    ELSE LET front == FilterCrawled(table, SubSeq(s, 1, Len(s) - 1))
             last == s[Len(s)]
         IN IF is_url_crawled(table, last) THEN front ELSE Append(front, last)

\* a cursor that is not advanced
NextCursorSame(p) == p

\* the value run() passes to update_page_progress for page page_num
NextCursor(p) == p + 1

\* largest diff.days a listed date has
MaxAgeDays == 4

\* the age limit of scrape(): if diff.days > 2
STALE_DAYS == 2

\* diff.days >= 2: an item exactly 2 days old stops the crawl as well
IsStaleFromTwo(d) == d >= STALE_DAYS

\* if diff.days > 2
IsStale(d) == d > STALE_DAYS

\* a status that scores an archive without image and PDF as partial
SubpageStatusArchiveOnlyPartial(img, pdf, zip) ==
    IF zip /\ ~img /\ ~pdf THEN "partial_success"
    ELSE IF (img \/ pdf) /\ ~zip THEN "partial_success"
    ELSE IF img \/ pdf \/ zip THEN "success" ELSE "failed"

\* success_count = sum([img_success, pdf_success, zip_success])
SuccessCount(img, pdf, zip) ==
    (IF img THEN 1 ELSE 0) + (IF pdf THEN 1 ELSE 0) + (IF zip THEN 1 ELSE 0)

\* return success_count > 0
ReturnOf(img, pdf, zip) == SuccessCount(img, pdf, zip) > 0

\* a status that is never failed
SubpageStatusNeverFailed(img, pdf, zip) ==
    IF (img \/ pdf) /\ ~zip THEN "partial_success" ELSE "success"

\* status = "partial_success" if (img or pdf) and not zip
\*          else "success" if success_count > 0 else "failed"
SubpageStatus(img, pdf, zip) ==
    IF (img \/ pdf) /\ ~zip THEN "partial_success"
    ELSE IF img \/ pdf \/ zip THEN "success"
    ELSE "failed"

CurUrl == page_links[idx]
Log(e) == item_log' = Append(item_log, e)
Writes(log) == {i \in 1..Len(log) : log[i] = "write"}

dbTables == <<crawled_urls, scraped_urls, page_progress>>
pageVars == <<start_page, page_num, listed, page_links, idx>>
itemLocals == <<img_success, pdf_success, zip_success, has_png>>
endVars == <<page_log, db_closes, page_quits, exit_path>>
cursorHist == <<upd_log, raised, last_update, endVars>>

\* one page iteration in the log of the run
Fetched(p) == [page |-> p, kind |-> "fetch"]
Skipped(p) == [page |-> p, kind |-> "skip"]

\* close() calls an exit of run() makes when only the normal end closes
CloseOnNormalEndOnly(path) == IF path = "normal" THEN 1 ELSE 0

\* finally: self.db_manager.close() -- on every exit of run()'s try
CloseOnExit(path) == 1

\* a page counter that is not advanced
NextPageSame(p) == p

\* page_num += 1
NextPage(p) == p + 1

\* the program is started: the first time, or again after it stopped
Start ==
    /\ pc \in {"idle", "stopped"}
    /\ run_no < MaxRuns
    /\ run_no' = run_no + 1
    /\ pc' = IF variant = "embroidery" THEN "run_start" ELSE "scrape_start"
    /\ start_page' = 0
    /\ page_num' = 0
    /\ listed' = <<>>
    /\ page_links' = <<>>
    /\ idx' = 0
    /\ enc_status' = "none"
    /\ item_log' = <<>>
    /\ img_success' = FALSE
    /\ pdf_success' = FALSE
    /\ zip_success' = FALSE
    /\ has_png' = FALSE
    /\ upd_log' = <<>>
    /\ raised' = FALSE
    /\ ps_ret' = FALSE
    /\ stop_scraping' = FALSE
    /\ diff_days' = 0
    /\ page_log' = <<>>
    /\ db_closes' = 0
    /\ page_quits' = 0
    /\ exit_path' = "none"
    /\ UNCHANGED <<got, api_marked, remarked, completed, zipVars, paceVars, variant, dbVars,
                   last_update>>

\* KeyboardInterrupt at any point of a run.  run() reads the statistics in
\* its handler and closes the ledger in its finally; nothing is written.
\* scrape() has no handler: the process ends with the traceback.
Interrupt ==
    /\ pc \notin {"idle", "stopped"}
    /\ pc' = "stopped"
    /\ exit_path' = "interrupt"
    /\ db_closes' = IF variant = "embroidery"
                    THEN db_closes + CloseOnExit("interrupt") ELSE db_closes
    /\ UNCHANGED <<auxVars, zipVars, paceVars, variant, dbVars, run_no, pageVars,
                   enc_status, item_log, itemLocals, upd_log, raised,
                   last_update, page_log, page_quits>>

(* ---------------- embroidery: run() ---------------- *)

\* page_progress = self.db_manager.get_page_progress(self.BASE_URL)
\* start_page = page_progress["current_page"]
RunGetProgress ==
    /\ pc = "run_start"
    /\ start_page' = get_page_progress(page_progress, BASE_URL)
    /\ page_progress' = get_page_progress_table(page_progress, BASE_URL)
    /\ pc' = "started"
    /\ got' = get_page_progress(page_progress, BASE_URL)
    /\ UNCHANGED <<ps_ret, stop_scraping, diff_days, api_marked, remarked, completed,
                   zipVars, paceVars, variant, crawled_urls, scraped_urls, db_ret, run_no,
                   page_num, listed, page_links, idx, enc_status, item_log,
                   itemLocals, cursorHist>>

\* if start_page == 1: visit page 1 and read the main title (empty title or an
\* exception ends run()); else the default title is used.  Then the page loop
\* starts at start_page.
RunEnterLoop ==
    /\ pc = "started"
    /\ \/ /\ page_num' = start_page
          /\ pc' = IF start_page <= TOTAL_PAGES THEN "page_top" ELSE "finished"
          /\ UNCHANGED <<db_closes, exit_path>>
       \/ /\ start_page = 1
          /\ page_num' = page_num
          /\ pc' = "stopped"
          /\ \E path \in {"no_title", "exception"} :
                /\ exit_path' = path
                /\ db_closes' = db_closes + CloseOnExit(path)
    /\ UNCHANGED <<auxVars, zipVars, paceVars, variant, dbVars, run_no, start_page,
                   listed, page_links, idx, enc_status, item_log, itemLocals,
                   upd_log, raised, last_update, page_log, page_quits>>

\* top of a page iteration: rest checks, then get_subpage_links_from_page
\* (driver.get, dedup of the hrefs, filter by is_url_crawled; any exception
\* inside it gives [])
RunFetchPage ==
    /\ pc = "page_top"
    /\ \E raw \in SeqsUpTo(URLS, MaxUrls), fetch_ok \in BOOLEAN :
         /\ listed' = IF fetch_ok THEN raw ELSE <<>>
         /\ page_links' = IF fetch_ok THEN FilterCrawled(crawled_urls, Dedup(raw))
                          ELSE <<>>
    /\ pc' = "links_fetched"
    /\ page_log' = Append(page_log, Fetched(page_num))
    /\ UNCHANGED <<auxVars, zipVars, paceVars, variant, dbVars, run_no, start_page,
                   page_num, idx, enc_status, item_log, itemLocals, upd_log,
                   raised, last_update, db_closes, page_quits, exit_path>>

\* the cursor update as run() performs it, with what had been dispatched by then
DoUpdate(after) ==
    /\ page_progress' = update_page_progress(page_progress, BASE_URL, NextCursor(page_num))
    /\ upd_log' = Append(upd_log, [arg |-> NextCursor(page_num), returned |-> idx,
                                   total |-> Len(page_links), handler |-> raised])
    /\ last_update' = NextCursor(page_num)
    /\ pc' = after

\* if not page_links: update_page_progress(page_num + 1); continue
RunNoLinks ==
    /\ pc = "links_fetched"
    /\ page_links = <<>>
    /\ DoUpdate("page_end")
    /\ UNCHANGED <<auxVars, zipVars, paceVars, variant, crawled_urls, scraped_urls,
                   db_ret, run_no, pageVars, enc_status, item_log, itemLocals,
                   raised, endVars>>

\* for idx, subpage_url in enumerate(page_links, 1): process_subpage(...)
\* First statement of process_subpage: the double check against the ledger.
PsCheck ==
    /\ pc \in {"links_fetched", "next_item"}
    /\ idx < Len(page_links)
    /\ idx' = idx + 1
    /\ enc_status' = StatusOf(crawled_urls, page_links[idx + 1])
    /\ item_log' = <<>>
    /\ img_success' = FALSE
    /\ pdf_success' = FALSE
    /\ zip_success' = FALSE
    /\ pc' = IF is_url_crawled(crawled_urls, page_links[idx + 1])
             THEN "item_done" ELSE "ps_nav"
    /\ ps_ret' = is_url_crawled(crawled_urls, page_links[idx + 1])
    /\ UNCHANGED <<got, stop_scraping, diff_days, api_marked, remarked, completed, zipVars, paceVars,
                   variant, dbVars, run_no, start_page, page_num, listed,
                   page_links, has_png, cursorHist>>

\* self.driver.get(subpage_url)  (may raise)
PsNavigate ==
    /\ pc = "ps_nav"
    /\ Log("navigate")
    /\ \E ok \in BOOLEAN : pc' = IF ok THEN "ps_title" ELSE "ps_except"
    /\ UNCHANGED <<auxVars, zipVars, paceVars, variant, dbVars, run_no, pageVars,
                   enc_status, itemLocals, cursorHist>>

\* detail title missing: mark failed and return False
PsTitle ==
    /\ pc = "ps_title"
    /\ \/ /\ crawled_urls' = mark_url_crawled(crawled_urls, CurUrl, "", "failed", "no-title")
          /\ Log("write")
          /\ pc' = "item_done"
       \/ /\ pc' = "ps_mkdir"
          /\ UNCHANGED <<crawled_urls, item_log>>
    /\ ps_ret' = FALSE
    /\ UNCHANGED <<got, stop_scraping, diff_days, api_marked, remarked, completed, zipVars, paceVars,
                   variant, scraped_urls, page_progress, db_ret, run_no,
                   pageVars, enc_status, itemLocals, cursorHist>>

\* download_path = self.create_download_directory(detail_title_en)
\* (its fallback os.makedirs may raise)
PsMkdir ==
    /\ pc = "ps_mkdir"
    /\ Log("mkdir")
    /\ \E ok \in BOOLEAN : pc' = IF ok THEN "ps_image" ELSE "ps_except"
    /\ UNCHANGED <<auxVars, zipVars, paceVars, variant, dbVars, run_no, pageVars,
                   enc_status, itemLocals, cursorHist>>

\* the statement that follows a download step of process_subpage: the three
\* calls are consecutive statements, none is conditional on an earlier result
AfterDownloadStopOnFailure(step, ok) ==
    IF ~ok THEN "ps_mark"
    ELSE IF step = "ps_image" THEN "ps_pdf" ELSE "ps_zip"

AfterDownload(step, ok) ==
    IF step = "ps_image" THEN "ps_pdf" ELSE "ps_zip"

\* img_success = self.download_main_image(download_path)
\* (the method catches every Exception and returns False)
PsImage ==
    /\ pc = "ps_image"
    /\ Log("image")
    /\ img_success' \in BOOLEAN
    /\ pc' = AfterDownload("ps_image", img_success')
    /\ UNCHANGED <<auxVars, zipVars, paceVars, variant, dbVars, run_no, pageVars,
                   enc_status, pdf_success, zip_success, has_png, cursorHist>>

\* pdf_success = self.download_pdf(download_path)
PsPdf ==
    /\ pc = "ps_pdf"
    /\ Log("pdf")
    /\ pdf_success' \in BOOLEAN
    /\ pc' = AfterDownload("ps_pdf", pdf_success')
    /\ UNCHANGED <<auxVars, zipVars, paceVars, variant, dbVars, run_no, pageVars,
                   enc_status, img_success, zip_success, has_png, cursorHist>>

\* zip_success, zip_file_path = self.download_zip_file(download_path, subpage_url)
\* (SpecZip models the call itself; an exception raised by its own handler's
\* refresh escapes it)
PsZip ==
    /\ pc = "ps_zip"
    /\ Log("zip")
    /\ \/ /\ zip_success' \in BOOLEAN
          /\ pc' = "ps_extract"
       \/ /\ zip_success' = zip_success
          /\ pc' = "ps_except"
    /\ UNCHANGED <<auxVars, zipVars, paceVars, variant, dbVars, run_no, pageVars,
                   enc_status, img_success, pdf_success, has_png, cursorHist>>

\* if zip_success and zip_file_path and os.path.exists(zip_file_path): extract_zip(...)
\* (skipped when the download failed or the file is no longer there)
PsExtract ==
    /\ pc = "ps_extract"
    /\ \/ /\ zip_success
          /\ Log("extract")
       \/ /\ UNCHANGED item_log
    /\ pc' = "ps_backup"
    /\ UNCHANGED <<auxVars, zipVars, paceVars, variant, dbVars, run_no, pageVars,
                   enc_status, itemLocals, cursorHist>>

\* if success_count > 0 and os.path.exists(download_path): create_backup(...)
\* (skipped when nothing was acquired or the directory is not there)
PsBackup ==
    /\ pc = "ps_backup"
    /\ \/ /\ img_success \/ pdf_success \/ zip_success
          /\ Log("backup")
       \/ /\ UNCHANGED item_log
    /\ pc' = "ps_mark"
    /\ UNCHANGED <<auxVars, zipVars, paceVars, variant, dbVars, run_no, pageVars,
                   enc_status, itemLocals, cursorHist>>

\* self.total_processed += 1; mark_url_crawled(..., status=status, ...); return
PsMark ==
    /\ pc = "ps_mark"
    /\ LET status == SubpageStatus(img_success, pdf_success, zip_success)
           msg == IF zip_success THEN ""
                  ELSE IF status = "partial_success" THEN "zip-failed" ELSE "all-failed"
       IN crawled_urls' = mark_url_crawled(crawled_urls, CurUrl, "dir", status, msg)
    /\ Log("write")
    /\ pc' = "item_done"
    /\ ps_ret' = ReturnOf(img_success, pdf_success, zip_success)
    /\ completed' = completed \cup {CurUrl}
    /\ UNCHANGED <<got, stop_scraping, diff_days, api_marked, remarked, zipVars, paceVars,
                   variant, scraped_urls, page_progress, db_ret, run_no,
                   pageVars, enc_status, itemLocals, cursorHist>>

\* except Exception as e: mark_url_crawled(status="failed", error_message=str(e)[:200])
PsExcept ==
    /\ pc = "ps_except"
    /\ crawled_urls' = mark_url_crawled(crawled_urls, CurUrl, "", "failed", "exception")
    /\ item_log' = item_log \o <<"raise", "write">>
    /\ pc' = "item_done"
    /\ ps_ret' = FALSE
    /\ UNCHANGED <<got, stop_scraping, diff_days, api_marked, remarked, completed, zipVars, paceVars,
                   variant, scraped_urls, page_progress, db_ret, run_no,
                   pageVars, enc_status, itemLocals, cursorHist>>

\* back in run(): progress line, then (idx < total_links) smart_wait and the
\* next link, or the end of the for loop
RunAfterItem ==
    /\ pc = "item_done"
    /\ pc' = IF idx < Len(page_links) THEN "next_item" ELSE "page_update"
    /\ UNCHANGED <<auxVars, zipVars, paceVars, variant, dbVars, run_no, pageVars,
                   enc_status, item_log, itemLocals, cursorHist>>

\* self.db_manager.update_page_progress(self.BASE_URL, page_num + 1)   (line 1389)
RunUpdate ==
    /\ pc = "page_update"
    /\ DoUpdate("page_tail")
    /\ UNCHANGED <<auxVars, zipVars, paceVars, variant, crawled_urls, scraped_urls,
                   db_ret, run_no, pageVars, enc_status, item_log, itemLocals,
                   raised, endVars>>

\* the rest of the iteration: waits, statistics
RunTail ==
    /\ pc = "page_tail"
    /\ pc' = "page_end"
    /\ UNCHANGED <<auxVars, zipVars, paceVars, variant, dbVars, run_no, pageVars,
                   enc_status, item_log, itemLocals, cursorHist>>

\* an exception raised inside the page iteration, outside process_subpage and
\* get_subpage_links_from_page (which catch their own): at the rest checks,
\* at the wait between two links, or after the cursor update
RunRaise ==
    /\ pc \in {"page_top", "next_item", "page_tail"}
    /\ raised' = TRUE
    /\ pc' = "page_except"
    /\ page_log' = IF pc = "page_top" THEN Append(page_log, Skipped(page_num))
                   ELSE page_log
    /\ UNCHANGED <<auxVars, zipVars, paceVars, variant, dbVars, run_no, pageVars,
                   enc_status, item_log, itemLocals, upd_log, last_update,
                   db_closes, page_quits, exit_path>>

\* except Exception: update_page_progress(page_num + 1); smart_wait; continue
RunExcept ==
    /\ pc = "page_except"
    /\ DoUpdate("page_end")
    /\ UNCHANGED <<auxVars, zipVars, paceVars, variant, crawled_urls, scraped_urls,
                   db_ret, run_no, pageVars, enc_status, item_log, itemLocals,
                   raised, endVars>>

\* next value of range(start_page, TOTAL_PAGES + 1)
RunNextPage ==
    /\ pc = "page_end"
    /\ page_num' = page_num + 1
    /\ pc' = IF page_num + 1 <= TOTAL_PAGES THEN "page_top" ELSE "finished"
    /\ listed' = <<>>
    /\ page_links' = <<>>
    /\ idx' = 0
    /\ upd_log' = <<>>
    /\ raised' = FALSE
    /\ UNCHANGED <<auxVars, zipVars, paceVars, variant, dbVars, run_no, start_page,
                   enc_status, item_log, itemLocals, last_update, endVars>>

\* final statistics; finally: self.db_manager.close()
RunFinish ==
    /\ pc = "finished"
    /\ pc' = "stopped"
    /\ exit_path' = "normal"
    /\ db_closes' = db_closes + CloseOnExit("normal")
    /\ UNCHANGED <<auxVars, zipVars, paceVars, variant, dbVars, run_no, pageVars,
                   enc_status, item_log, itemLocals, upd_log, raised,
                   last_update, page_log, page_quits>>

NextRun ==
    \/ RunGetProgress
    \/ RunEnterLoop
    \/ RunFetchPage
    \/ RunNoLinks
    \/ PsCheck
    \/ PsNavigate
    \/ PsTitle
    \/ PsMkdir
    \/ PsImage
    \/ PsPdf
    \/ PsZip
    \/ PsExtract
    \/ PsBackup
    \/ PsMark
    \/ PsExcept
    \/ RunAfterItem
    \/ RunUpdate
    \/ RunTail
    \/ RunRaise
    \/ RunExcept
    \/ RunNextPage
    \/ RunFinish

(* ---------------- T-shirt: scrape() ---------------- *)

\* page_num = 1; stop_scraping = False
ScrapeBegin ==
    /\ pc = "scrape_start"
    /\ page_num' = 1
    /\ pc' = "s_page_top"
    /\ UNCHANGED <<auxVars, zipVars, paceVars, variant, dbVars, run_no, start_page,
                   listed, page_links, idx, enc_status, item_log, itemLocals,
                   cursorHist>>

\* self.page.get(current_url); links -> product_urls (duplicates are kept).
\* The site lists products on at most TOTAL_PAGES pages.  page.get is not
\* inside any try: an exception ends the process.
ScrapeFetchPage ==
    /\ pc = "s_page_top"
    /\ \/ \E raw \in SeqsUpTo(URLS, MaxUrls) :
            /\ page_num > TOTAL_PAGES => raw = <<>>
            /\ listed' = raw
            /\ page_links' = raw
            /\ idx' = 0
            /\ pc' = IF raw = <<>> THEN "s_closing" ELSE "s_items"
            /\ exit_path' = exit_path
       \/ /\ pc' = "stopped"
          /\ exit_path' = "uncaught"
          /\ UNCHANGED <<listed, page_links, idx>>
    /\ page_log' = Append(page_log, Fetched(page_num))
    /\ UNCHANGED <<auxVars, zipVars, paceVars, variant, dbVars, run_no, start_page,
                   page_num, enc_status, item_log, itemLocals, upd_log, raised,
                   last_update, db_closes, page_quits>>

\* for url in product_urls: rest checks; if self.db.is_scraped(url): continue
ScrapeCheck ==
    /\ pc = "s_items"
    /\ idx < Len(page_links)
    /\ idx' = idx + 1
    /\ enc_status' = StatusOf(scraped_urls, page_links[idx + 1])
    /\ item_log' = <<>>
    /\ zip_success' = FALSE
    /\ has_png' = FALSE
    /\ pc' = IF is_scraped(scraped_urls, page_links[idx + 1]) THEN "s_items" ELSE "s_nav"
    /\ diff_days' = 0
    /\ UNCHANGED <<got, ps_ret, stop_scraping, api_marked, remarked, completed, zipVars, paceVars,
                   variant, dbVars, run_no, start_page, page_num, listed,
                   page_links, img_success, pdf_success, cursorHist>>

\* the for loop is exhausted: page_num += 1
ScrapeNextPage ==
    /\ pc = "s_items"
    /\ idx = Len(page_links)
    /\ page_num' = NextPage(page_num)
    /\ pc' = "s_page_top"
    /\ UNCHANGED <<auxVars, zipVars, paceVars, variant, dbVars, run_no, start_page,
                   listed, page_links, idx, enc_status, item_log, itemLocals,
                   cursorHist>>

\* self.page.get(url); self.smart_wait()
ScrapeNavigate ==
    /\ pc = "s_nav"
    /\ Log("navigate")
    /\ \E ok \in BOOLEAN : pc' = IF ok THEN "s_date" ELSE "s_except"
    /\ UNCHANGED <<auxVars, zipVars, paceVars, variant, dbVars, run_no, pageVars,
                   enc_status, itemLocals, cursorHist>>

\* listed date read and parsed: diff = self.today - listed_date;
\* diff.days > 2 => stop_scraping = True; break (the while loop then ends);
\* otherwise, or with no readable date, go on.  page.ele may raise.
ScrapeDate ==
    /\ pc = "s_date"
    /\ \/ \E d \in 0..MaxAgeDays :
            /\ diff_days' = d
            /\ stop_scraping' = IsStale(d)
            /\ pc' = IF IsStale(d) THEN "s_closing" ELSE "s_zip"
       \/ /\ pc' = "s_zip"
          /\ UNCHANGED <<diff_days, api_marked, remarked, completed, stop_scraping>>
       \/ /\ pc' = "s_except"
          /\ UNCHANGED <<diff_days, api_marked, remarked, completed, stop_scraping>>
    /\ UNCHANGED <<got, ps_ret, api_marked, remarked, completed, zipVars, paceVars, variant, dbVars,
                   run_no, pageVars, enc_status, item_log, itemLocals,
                   cursorHist>>

\* zip_success, zip_file_path = self.download_zip_file(self.save_root, url)
ScrapeZip ==
    /\ pc = "s_zip"
    /\ Log("zip")
    /\ \/ /\ zip_success' \in BOOLEAN
          /\ pc' = "s_zip_mark"
       \/ /\ zip_success' = zip_success
          /\ pc' = "s_except"
    /\ UNCHANGED <<auxVars, zipVars, paceVars, variant, dbVars, run_no, pageVars,
                   enc_status, img_success, pdf_success, has_png, cursorHist>>

\* if zip_success and zip_file_path: mark_scraped(url, status="downloaded", ...)
\* else: mark_scraped(url, status="failed", error_message="ZIP download failed")
ScrapeZipMark ==
    /\ pc = "s_zip_mark"
    /\ scraped_urls' = IF zip_success
                       THEN mark_scraped(scraped_urls, CurUrl, "downloaded", "", "zip")
                       ELSE mark_scraped(scraped_urls, CurUrl, "failed", "zip-failed", "")
    /\ Log("write")
    /\ pc' = IF zip_success THEN "s_title" ELSE "s_item_end"
    /\ UNCHANGED <<auxVars, zipVars, paceVars, variant, crawled_urls, page_progress,
                   db_ret, run_no, pageVars, enc_status, itemLocals,
                   cursorHist>>

\* title_ele = self.page.ele(...); clean_title(...)   (page.ele may raise)
ScrapeTitle ==
    /\ pc = "s_title"
    /\ \E ok \in BOOLEAN : pc' = IF ok THEN "pd_extract" ELSE "s_except"
    /\ UNCHANGED <<auxVars, zipVars, paceVars, variant, dbVars, run_no, pageVars,
                   enc_status, item_log, itemLocals, cursorHist>>

\* process_download: zip_ref.extractall(extract_path); collect the PNG files
PdExtract ==
    /\ pc = "pd_extract"
    /\ Log("extract")
    /\ \/ /\ has_png' \in BOOLEAN
          /\ pc' = IF has_png' THEN "pd_move" ELSE "pd_mark"
       \/ /\ has_png' = has_png
          /\ pc' = "pd_except"
    /\ UNCHANGED <<auxVars, zipVars, paceVars, variant, dbVars, run_no, pageVars,
                   enc_status, img_success, pdf_success, zip_success,
                   cursorHist>>

\* for png_file in png_files: shutil.move(png_file, save_root/unique_name)
PdMove ==
    /\ pc = "pd_move"
    /\ Log("move")
    /\ \E ok \in BOOLEAN : pc' = IF ok THEN "pd_mark" ELSE "pd_except"
    /\ UNCHANGED <<auxVars, zipVars, paceVars, variant, dbVars, run_no, pageVars,
                   enc_status, itemLocals, cursorHist>>

\* mark_scraped(url, status="partial_success", ...) when no PNG was found,
\* mark_scraped(url, status="success", download_path=zip_path) otherwise
PdMark ==
    /\ pc = "pd_mark"
    /\ scraped_urls' = IF has_png
                       THEN mark_scraped(scraped_urls, CurUrl, "success", "", "zip")
                       ELSE mark_scraped(scraped_urls, CurUrl, "partial_success", "no-png", "")
    /\ Log("write")
    /\ completed' = completed \cup {CurUrl}
    /\ pc' = "pd_remove"
    /\ UNCHANGED <<got, ps_ret, stop_scraping, diff_days, api_marked, remarked,
                   zipVars, paceVars, variant, crawled_urls, page_progress,
                   db_ret, run_no, pageVars, enc_status, itemLocals,
                   cursorHist>>

\* os.remove(zip_path)
PdRemove ==
    /\ pc = "pd_remove"
    /\ Log("remove")
    /\ \E ok \in BOOLEAN : pc' = IF ok THEN "pd_rmtree" ELSE "pd_except"
    /\ UNCHANGED <<auxVars, zipVars, paceVars, variant, dbVars, run_no, pageVars,
                   enc_status, itemLocals, cursorHist>>

\* shutil.rmtree(extract_path)
PdRmtree ==
    /\ pc = "pd_rmtree"
    /\ Log("rmtree")
    /\ \E ok \in BOOLEAN : pc' = IF ok THEN "s_item_end" ELSE "pd_except"
    /\ UNCHANGED <<auxVars, zipVars, paceVars, variant, dbVars, run_no, pageVars,
                   enc_status, itemLocals, cursorHist>>

\* process_download's except: mark_scraped(url, status="failed", ...)
PdExcept ==
    /\ pc = "pd_except"
    /\ scraped_urls' = mark_scraped(scraped_urls, CurUrl, "failed", "process-error", "")
    /\ item_log' = item_log \o <<"raise", "write">>
    /\ pc' = "s_item_end"
    /\ UNCHANGED <<auxVars, zipVars, paceVars, variant, crawled_urls, page_progress,
                   db_ret, run_no, pageVars, enc_status, itemLocals,
                   cursorHist>>

\* scrape's except: mark_scraped(url, status="failed", error_message=str(e))
ScrapeExcept ==
    /\ pc = "s_except"
    /\ scraped_urls' = mark_scraped(scraped_urls, CurUrl, "failed", "exception", "")
    /\ item_log' = item_log \o <<"raise", "write">>
    /\ pc' = "s_item_end"
    /\ UNCHANGED <<auxVars, zipVars, paceVars, variant, crawled_urls, page_progress,
                   db_ret, run_no, pageVars, enc_status, itemLocals,
                   cursorHist>>

\* self.total_processed += 1, then the next url of the page
ScrapeItemEnd ==
    /\ pc = "s_item_end"
    /\ pc' = "s_items"
    /\ UNCHANGED <<auxVars, zipVars, paceVars, variant, dbVars, run_no, pageVars,
                   enc_status, item_log, itemLocals, cursorHist>>

\* self.db.close(); self.page.quit()
ScrapeClose ==
    /\ pc = "s_closing"
    /\ pc' = "stopped"
    /\ exit_path' = "loop_end"
    /\ db_closes' = db_closes + 1
    /\ page_quits' = page_quits + 1
    /\ UNCHANGED <<auxVars, zipVars, paceVars, variant, dbVars, run_no, pageVars,
                   enc_status, item_log, itemLocals, upd_log, raised,
                   last_update, page_log>>

NextScrape ==
    \/ ScrapeBegin
    \/ ScrapeFetchPage
    \/ ScrapeCheck
    \/ ScrapeNextPage
    \/ ScrapeNavigate
    \/ ScrapeDate
    \/ ScrapeZip
    \/ ScrapeZipMark
    \/ ScrapeTitle
    \/ PdExtract
    \/ PdMove
    \/ PdMark
    \/ PdRemove
    \/ PdRmtree
    \/ PdExcept
    \/ ScrapeExcept
    \/ ScrapeItemEnd
    \/ ScrapeClose

Init ==
    /\ variant \in {"embroidery", "tshirt"}
    /\ crawled_urls = {}
    /\ scraped_urls = {}
    /\ page_progress = <<>>
    /\ db_ret = NoRet
    /\ InitOrchIdle
    /\ InitWaitIdle
    /\ InitBreakIdle
    /\ InitMoveIdle
    /\ InitZipIdle

Next ==
    \/ Start
    \/ Interrupt
    \/ NextRun
    \/ NextScrape

Spec == Init /\ [][Next]_vars

\* Spec with the steps of run() and of scrape() taken as long as one is
\* enabled: the program is single-threaded and every call it makes returns
\* or raises
SpecLive == Init /\ [][Next]_vars /\ WF_vars(NextRun) /\ WF_vars(NextScrape)

----------------------------------------------------------------------------
\* C2: the done-lookup answers true exactly for a URL whose current status is
\* success, partial_success or downloaded; it answers false for failed and
\* pending (and for an unknown URL).
C2_LookupFiltersByStatus ==
    db_ret.op = "lookup" =>
        (db_ret.val <=> StatusOf(Ledger, db_ret.url) \in DoneStatuses)

\* C3: after update_page_progress(b, p) the cursor read back for b is p, and
\* the store never holds more than one cursor row per base URL.
C3_CursorUpsert ==
    /\ \A b \in BASES : Cardinality(RowsOf(page_progress, b)) <= 1
    /\ db_ret.op = "update" =>
         get_page_progress(page_progress, db_ret.base_url) = db_ret.current_page

----------------------------------------------------------------------------
(* download_zip_file.  The browser and the challenge resolver are the        *)
(* environment: a lookup finds its element or not, a call works or raises,   *)
(* the resolver answers true or false, and the browser may write a file      *)
(* into the download directory at any moment.  Files are never removed       *)
(* while download_zip_file runs.                                             *)

\* max_retries: RETRY_CONFIG["max_retries"] (embroidery), max_retries = 3 (T-shirt)
MAX_RETRIES == 3
\* for wait_attempt in range(30)   (embroidery poll loops)
POLL_EMBROIDERY == 30
\* for wait_attempt in range(60)   (T-shirt poll loops)
POLL_TSHIRT == 60

\* file names, as the characters they are made of
ZipLower == <<"a", ".", "z", "i", "p">>
ZipUpper == <<"B", ".", "Z", "I", "P">>
ZipPartial == <<"a", ".", "z", "i", "p", ".", "c">>
FILES == {ZipLower, ZipUpper, ZipPartial}
DOWNLOAD_PATH == "download_path"

\* str.lower(), on the characters that occur
LowerChar(c) ==
    CASE c = "B" -> "b"
      [] c = "Z" -> "z"
      [] c = "I" -> "i"
      [] c = "P" -> "p"
      [] OTHER -> c

Lower(s) == [i \in 1..Len(s) |-> LowerChar(s[i])]

\* str.endswith
EndsWith(s, suffix) ==
    /\ Len(s) >= Len(suffix)
    /\ SubSeq(s, Len(s) - Len(suffix) + 1, Len(s)) = suffix

\* '.zip'
DotZip == <<".", "z", "i", "p">>

\* f.endswith('.zip'), the case kept
IsZipNameCaseSensitive(f) == EndsWith(f, DotZip)

\* f.lower().endswith('.zip')
IsZipName(f) == EndsWith(Lower(f), DotZip)

\* the listing with the before-set not taken away
NewFilesNoDiff(current, before) == current

\* new_files = current_files - before_files
NewFiles(current, before) == current \ before

\* zip_files = [f for f in new_files if f.lower().endswith('.zip')]
ZipFiles(current, before) == {f \in NewFiles(current, before) : IsZipName(f)}

\* os.path.join(download_path, zip_filename)
PathJoin(dir, name) == <<dir, name>>

\* set(os.listdir(download_path)) if os.path.exists(download_path) else set()
Listing == IF dir_exists THEN dir_files ELSE {}

\* the T-shirt budget in both variants
PollBudgetSixty(v) == POLL_TSHIRT

\* a poll of a single iteration
PollBudgetOne(v) == 1

\* range(30) / range(60)
PollBudget(v) == IF v = "embroidery" THEN POLL_EMBROIDERY ELSE POLL_TSHIRT

\* attempt < max_retries - 1
MoreAttempts(a) == a < MAX_RETRIES - 1

\* a handler that gives up in every attempt
IsLastAttemptAlways(a) == TRUE

\* attempt == max_retries - 1
IsLastAttempt(a) == a = MAX_RETRIES - 1

RetFail(line) == [ok |-> FALSE, path |-> "None", line |-> line]
RetOk(f, line) == [ok |-> TRUE, path |-> PathJoin(DOWNLOAD_PATH, f), line |-> line]

notZip == <<variant, dbVars, orchVars, auxVars, paceVars>>

\* download_zip_file is entered: attempt 0, any directory content
InitZip ==
    /\ variant \in {"embroidery", "tshirt"}
    /\ crawled_urls = {}
    /\ scraped_urls = {}
    /\ page_progress = <<>>
    /\ db_ret = [op |-> "none"]
    /\ InitOrchIdle
    /\ InitWaitIdle
    /\ InitBreakIdle
    /\ InitMoveIdle
    /\ z_pc = "locate"
    /\ z_ret = NoZipRet
    /\ attempt = 0
    /\ download_button = FALSE
    /\ before_files = {}
    /\ wait_attempt = 0
    /\ locates = 0
    /\ snap_at_trigger = {}
    /\ dir_exists \in BOOLEAN
    /\ dir_files \in SUBSET FILES
    /\ ~dir_exists => dir_files = {}
    /\ zip_k = 0
    /\ captcha_seen = FALSE
    /\ gained_zip = FALSE
    /\ blocked = FALSE
    /\ stale = FALSE
    /\ refreshed = FALSE
    /\ after_events = {}
    /\ solves = 0
    /\ InitSolveIdle

\* ---- the challenge resolver ----

\* how RecaptchaSolver.solveCaptcha can end: the returns and the raises
SOLVER_RETURNS == {"checkbox", "checkbox_late", "verified"}
SOLVER_RAISES == {"anchor", "no_iframe", "audio_button", "detected", "audio"}

\* a caller found a challenge marker and calls solve_captcha_and_click_submit()
SolveEnter ==
    /\ s_pc' = "call"
    /\ challenge_present' = TRUE
    /\ UNCHANGED <<s_ret, solver_calls, solver_out, submit_found,
                   submit_clicked, sc_obs>>

\* the caller has taken the result
SolveLeave ==
    /\ s_pc' = "idle"
    /\ s_ret' = FALSE
    /\ challenge_present' = FALSE
    /\ solver_calls' = 0
    /\ solver_out' = "none"
    /\ submit_found' = FALSE
    /\ submit_clicked' = FALSE
    /\ sc_obs' = NoObs

notSolve == <<attHist, notZip, z_pc, z_ret, zipLocals, zipHist, dirVars, zip_k,
              captcha_seen, gained_zip>>

\* what solveCaptcha does next, or how it ends (then the submit step follows)
SolverGoes(next, out) ==
    /\ s_pc' = next
    /\ solver_out' = out
    /\ UNCHANGED <<notSolve, s_ret, challenge_present, solver_calls,
                   submit_found, submit_clicked>>

\* a result that also needs solveCaptcha to have returned
ResolverResultNeedsSolver(out, found, clicked) ==
    out \in SOLVER_RETURNS /\ found /\ clicked

\* a result that is true whatever happened
ResolverResultAlways(out, found, clicked) == TRUE

\* what solve_captcha_and_click_submit returns: True after submit_button was
\* found and clicked (849), False otherwise (852, 857); how solveCaptcha
\* ended plays no part
ResolverResult(out, found, clicked) == found /\ clicked

\* solve_captcha_and_click_submit: self.recaptcha_solver.solveCaptcha() is
\* called, whatever is on the page
SolveCall ==
    /\ s_pc = "call"
    /\ s_pc' = "sc_anchor"
    /\ solver_calls' = solver_calls + 1
    /\ UNCHANGED <<notSolve, s_ret, challenge_present, solver_out, submit_found,
                   submit_clicked, sc_obs>>

\* _is_checkbox_solved: aria-checked of #recaptcha-anchor is "true", or the
\* class of .recaptcha-checkbox contains recaptcha-checkbox-checked (a lookup
\* that raises counts as not so)
is_checkbox_solved(aria, cls) == aria \/ cls

\* is_solved: the reCAPTCHA frame is found and its checkbox is solved, or
\* .recaptcha-checkbox-checkmark has a style attribute
is_solved(frame, aria, cls, mark) ==
    (frame /\ is_checkbox_solved(aria, cls)) \/ mark

\* what one call of _is_checkbox_solved can read: the class is read only
\* when aria-checked was not "true"
BoxReads == {r \in [aria : BOOLEAN, cls : BOOLEAN] : r.aria => ~r.cls}

\* what one call of is_solved can read: the checkbox only inside a frame
\* that was found, the checkmark only when the checkbox did not settle it
SolvedReads ==
    {r \in [frame : BOOLEAN, aria : BOOLEAN, cls : BOOLEAN, mark : BOOLEAN] :
        /\ r.aria => ~r.cls
        /\ ~r.frame => (~r.aria /\ ~r.cls)
        /\ (r.frame /\ (r.aria \/ r.cls)) => ~r.mark}

Obs(at, frame, aria, cls, mark) ==
    [at |-> at, frame |-> frame, aria |-> aria, cls |-> cls, mark |-> mark]

\* an end of the verification step that does not depend on is_solved()
AfterVerifyUnchecked(solved) == "verified"

\* if not self.is_solved(): raise Exception(...)   (else the function ends)
AfterVerify(solved) == IF solved THEN "verified" ELSE "audio"

\* solveCaptcha 36-50: wait for the reCAPTCHA frame, click the checkbox
\* (either may raise); solved by the click alone: return
ScAnchor ==
    /\ s_pc = "sc_anchor"
    /\ \/ /\ SolverGoes("submit", "anchor")
          /\ UNCHANGED sc_obs
       \/ \E r \in BoxReads :
            /\ sc_obs' = Obs("click", TRUE, r.aria, r.cls, FALSE)
            /\ IF is_checkbox_solved(r.aria, r.cls)
               THEN SolverGoes("submit", "checkbox")
               ELSE SolverGoes("sc_iframe", "none")

\* solveCaptcha 53-58: the challenge frame is looked up; without one: return
\* if the checkbox is solved by now, else raise
ScIframe ==
    /\ s_pc = "sc_iframe"
    /\ \/ /\ SolverGoes("sc_audio_button", "none")
          /\ UNCHANGED sc_obs
       \/ \E r \in BoxReads :
            /\ sc_obs' = Obs("no_iframe", TRUE, r.aria, r.cls, FALSE)
            /\ IF is_checkbox_solved(r.aria, r.cls)
               THEN SolverGoes("submit", "checkbox_late")
               ELSE SolverGoes("submit", "no_iframe")

\* solveCaptcha 60-77: click the audio button; on a raise, the image button
\* and the audio button again (a raise there leaves the function)
ScAudioButton ==
    /\ s_pc = "sc_audio_button"
    /\ \/ SolverGoes("sc_detected", "none")
       \/ SolverGoes("submit", "audio_button")
    /\ UNCHANGED sc_obs

\* solveCaptcha 79-80: if self.is_detected(): raise
ScDetected ==
    /\ s_pc = "sc_detected"
    /\ \/ SolverGoes("submit", "detected")
       \/ SolverGoes("sc_audio", "none")
    /\ UNCHANGED sc_obs

\* solveCaptcha 83-96: fetch and transcribe the audio, enter it, click
\* verify (a failure of any of these is raised), then is_solved(): false is
\* raised as well
ScAudio ==
    /\ s_pc = "sc_audio"
    /\ \/ /\ SolverGoes("submit", "audio")
          /\ UNCHANGED sc_obs
       \/ \E r \in SolvedReads :
            /\ sc_obs' = Obs("verify", r.frame, r.aria, r.cls, r.mark)
            /\ SolverGoes("submit",
                          AfterVerify(is_solved(r.frame, r.aria, r.cls, r.mark)))

\* solve_captcha_and_click_submit 831-853: a raise of solveCaptcha was
\* swallowed; the submit control is looked up (found, not found: return
\* False, or the lookup raises: the outer except returns False)
SolveSubmit ==
    /\ s_pc = "submit"
    /\ \/ /\ submit_found' = TRUE
          /\ s_pc' = "submit_click"
          /\ s_ret' = s_ret
       \/ /\ submit_found' = FALSE
          /\ s_pc' = "done"
          /\ s_ret' = ResolverResult(solver_out, FALSE, FALSE)
    /\ UNCHANGED <<notSolve, challenge_present, solver_calls, solver_out,
                   submit_clicked, sc_obs>>

\* solve_captcha_and_click_submit 846-849: submit_button.click(); return True
\* (a raise of click: the outer except returns False)
SolveClick ==
    /\ s_pc = "submit_click"
    /\ \/ /\ submit_clicked' = TRUE
          /\ s_ret' = ResolverResult(solver_out, submit_found, TRUE)
       \/ /\ submit_clicked' = FALSE
          /\ s_ret' = ResolverResult(solver_out, submit_found, FALSE)
    /\ s_pc' = "done"
    /\ UNCHANGED <<notSolve, challenge_present, solver_calls, solver_out,
                   submit_found, sc_obs>>

SolveStep ==
    \/ SolveCall
    \/ ScAnchor
    \/ ScIframe
    \/ ScAudioButton
    \/ ScDetected
    \/ ScAudio
    \/ SolveSubmit
    \/ SolveClick

\* solve_captcha_and_click_submit is called on a page with or without a
\* verification challenge
InitSolve ==
    /\ variant \in {"embroidery", "tshirt"}
    /\ crawled_urls = {}
    /\ scraped_urls = {}
    /\ page_progress = <<>>
    /\ db_ret = [op |-> "none"]
    /\ InitOrchIdle
    /\ InitWaitIdle
    /\ InitBreakIdle
    /\ InitMoveIdle
    /\ z_pc = "idle"
    /\ z_ret = NoZipRet
    /\ attempt = 0
    /\ download_button = FALSE
    /\ before_files = {}
    /\ wait_attempt = 0
    /\ locates = 0
    /\ snap_at_trigger = {}
    /\ dir_exists = FALSE
    /\ dir_files = {}
    /\ zip_k = 0
    /\ captcha_seen = FALSE
    /\ gained_zip = FALSE
    /\ blocked = FALSE
    /\ stale = FALSE
    /\ refreshed = FALSE
    /\ after_events = {}
    /\ solves = 0
    /\ s_pc = "call"
    /\ s_ret = FALSE
    /\ challenge_present \in BOOLEAN
    /\ solver_calls = 0
    /\ solver_out = "none"
    /\ submit_found = FALSE
    /\ submit_clicked = FALSE
    /\ sc_obs = NoObs

SpecSolve == InitSolve /\ [][SolveStep]_vars

Running == z_pc \notin {"idle", "returned", "raised"}

\* the positions that are poll loops
POLLS == {"poll_click", "poll_cap_nobtn", "poll_cap_false", "poll_cap_err",
          "poll_direct", "poll_reclick"}

\* at the start of a poll: a new .zip name that is already in the directory
\* is seen by the first iteration
VisibleAtStart(before) ==
    IF \E f \in Listing \ before : EndsWith(Lower(f), DotZip) THEN 1 ELSE 0

\* positions at which solve_captcha_and_click_submit() has just been called
SOLVE_PCS == {"nobtn_solve", "false_solve", "err_solve"}

\* the call of the resolver, if this step makes one, is noted with its attempt
Invoked ==
    solves' = IF z_pc' \in SOLVE_PCS THEN Min({solves + 1, 2}) ELSE solves

\* an event of the current attempt, kept once the attempt is blocked or stale
After(events) ==
    IF blocked \/ stale THEN after_events \cup events ELSE after_events

\* the browser writes a file into the download directory
EnvWrite ==
    /\ Running
    /\ \E f \in FILES \ dir_files :
         /\ dir_files' = dir_files \cup {f}
         /\ gained_zip' = (gained_zip \/ EndsWith(Lower(f), DotZip))
         /\ zip_k' = IF /\ z_pc \in POLLS
                        /\ zip_k = 0
                        /\ EndsWith(Lower(f), DotZip)
                        /\ f \notin before_files
                     THEN wait_attempt + 1
                     ELSE zip_k
    /\ dir_exists' = TRUE
    /\ UNCHANGED <<notZip, z_pc, z_ret, zipLocals, zipHist, captcha_seen,
                   solveVars>>
    /\ UNCHANGED attHist

\* the next iteration of `for attempt in range(max_retries)`, or, after the
\* last one, the final `return False, None`
Continue(line) ==
    IF attempt + 1 < MAX_RETRIES
    THEN /\ attempt' = attempt + 1
         /\ z_pc' = "locate"
         /\ z_ret' = z_ret
    ELSE /\ attempt' = attempt
         /\ z_pc' = "returned"
         /\ z_ret' = RetFail(line)

\* line of the function's last statement, return False, None
LastLine == IF variant = "embroidery" THEN 1190 ELSE 2062

\* top of an attempt: the download control is looked up with the selector list
\* (found, not found, or the lookup raises)
ZLocate ==
    /\ z_pc = "locate"
    /\ locates' = locates + 1
    /\ \/ /\ download_button' = TRUE
          /\ z_pc' = "snapshot"
       \/ /\ download_button' = FALSE
          /\ z_pc' = IF variant = "embroidery" THEN "nobtn_captcha" ELSE "nobtn_after"
       \/ /\ download_button' = FALSE
          /\ z_pc' = "outer_except"
    /\ UNCHANGED <<zipAux, notZip, z_ret, attempt, before_files, wait_attempt,
                   snap_at_trigger, dirVars>>
    /\ blocked' = (variant = "tshirt" /\ z_pc' = "nobtn_after")
    /\ stale' = FALSE
    /\ refreshed' = FALSE
    /\ after_events' = {}
    /\ solves' = 0

\* embroidery 892-904: no control found, look for a challenge marker
ZNoButtonCaptcha ==
    /\ z_pc = "nobtn_captcha"
    /\ \/ /\ z_pc' = "nobtn_solve"
          /\ captcha_seen' = TRUE
          /\ SolveEnter
       \/ /\ z_pc' = "nobtn_after"
          /\ UNCHANGED <<captcha_seen, solveVars>>
       \/ /\ z_pc' = "outer_except"
          /\ UNCHANGED <<captcha_seen, solveVars>>
    /\ UNCHANGED <<notZip, z_ret, zipLocals, zipHist, dirVars, zip_k,
                   gained_zip>>
    /\ blocked' = (z_pc' = "nobtn_after")
    /\ UNCHANGED <<stale, refreshed, after_events>>
    /\ Invoked

\* embroidery 908-911: solve_captcha_and_click_submit(); on true the file list
\* is recorded and the poll starts
ZNoButtonSolve ==
    /\ z_pc = "nobtn_solve"
    /\ s_pc = "done"
    /\ IF s_ret
       THEN /\ before_files' = Listing
            /\ wait_attempt' = 0
            /\ zip_k' = VisibleAtStart(Listing)
            /\ z_pc' = "poll_cap_nobtn"
       ELSE /\ UNCHANGED <<before_files, wait_attempt, zip_k>>
            /\ z_pc' = "nobtn_after"
    /\ SolveLeave
    /\ UNCHANGED <<notZip, z_ret, attempt, download_button, zipHist, dirVars,
                   captcha_seen, gained_zip>>
    /\ blocked' = ~s_ret
    /\ UNCHANGED <<stale, refreshed, after_events, solves>>

\* embroidery 945-950: if attempt < max_retries - 1: refresh; continue
\*   (on the last attempt control falls through to the snapshot and the click)
\* T-shirt 1849-1856: the same test, else: return False, None
ZNoButtonAfter ==
    /\ z_pc = "nobtn_after"
    /\ IF MoreAttempts(attempt)
       THEN \/ /\ attempt' = attempt + 1
               /\ z_pc' = "locate"
               /\ z_ret' = z_ret
            \/ /\ attempt' = attempt
               /\ z_pc' = "outer_except"
               /\ z_ret' = z_ret
       ELSE IF variant = "embroidery"
            THEN /\ attempt' = attempt
                 /\ z_pc' = "snapshot"
                 /\ z_ret' = z_ret
            ELSE /\ attempt' = attempt
                 /\ z_pc' = "returned"
                 /\ z_ret' = RetFail(1856)
    /\ UNCHANGED <<zipAux, notZip, download_button, before_files, wait_attempt,
                   zipHist, dirVars>>
    /\ refreshed' = (z_pc' = "locate")
    /\ UNCHANGED <<blocked, stale, after_events, solves>>

\* before_files = set(os.listdir(download_path)) if os.path.exists(...) else set()
ZSnapshot ==
    /\ z_pc = "snapshot"
    /\ before_files' = Listing
    /\ snap_at_trigger' = Listing
    /\ z_pc' = "click"
    /\ UNCHANGED <<zipAux, notZip, z_ret, attempt, download_button,
                   wait_attempt, locates, dirVars>>
    /\ UNCHANGED attHist

\* download_result = download_button.click.to_download(...): true, false, or
\* it raises (always, when no control was found; stale is the ElementLostError
\* case).  T-shirt: a raise goes to the re-locate block.
ZClick ==
    /\ z_pc = "click"
    /\ \/ /\ download_button
          /\ wait_attempt' = 0
          /\ zip_k' = VisibleAtStart(before_files)
          /\ z_pc' = "poll_click"
          /\ stale' = FALSE
       \/ /\ download_button
          /\ UNCHANGED <<wait_attempt, zip_k>>
          /\ z_pc' = "false_captcha"
          /\ stale' = FALSE
       \/ /\ UNCHANGED <<wait_attempt, zip_k>>
          /\ z_pc' = IF variant = "embroidery" THEN "click_error" ELSE "relocate"
          /\ stale' \in IF variant = "tshirt" /\ download_button
                        THEN BOOLEAN ELSE {FALSE}
       \/ /\ download_button
          /\ variant = "embroidery"
          /\ UNCHANGED <<wait_attempt, zip_k>>
          /\ z_pc' = "click_error_stale"
          /\ stale' = TRUE
    /\ UNCHANGED <<notZip, z_ret, attempt, download_button, before_files,
                   zipHist, dirVars, captcha_seen, gained_zip, solveVars>>
    /\ UNCHANGED <<blocked, refreshed, after_events, solves>>

\* one iteration of a poll loop: time.sleep(1); list the directory; the first
\* new .zip name ends the function with return True, zip_file_path
PollTick(kind, line) ==
    /\ z_pc = kind
    /\ wait_attempt < PollBudget(variant)
    /\ wait_attempt' = wait_attempt + 1
    /\ IF dir_exists /\ ZipFiles(dir_files, before_files) # {}
       THEN /\ \E f \in ZipFiles(dir_files, before_files) : z_ret' = RetOk(f, line)
            /\ z_pc' = "returned"
       ELSE /\ z_ret' = z_ret
            /\ z_pc' = z_pc
    /\ UNCHANGED <<zipAux, notZip, attempt, download_button, before_files,
                   zipHist, dirVars>>
    /\ UNCHANGED attHist

\* the poll after a started download ran out: nothing is returned, the
\* attempt ends (embroidery 989-991, T-shirt 1896-1898)
ZPollClickOut ==
    /\ z_pc = "poll_click"
    /\ wait_attempt = PollBudget(variant)
    /\ Continue(LastLine)
    /\ UNCHANGED <<zipAux, notZip, download_button, before_files, wait_attempt,
                   zipHist, dirVars>>
    /\ UNCHANGED attHist

\* embroidery 933-939, 1040-1046, 1119-1125: the poll after a solved challenge
\* ran out: return False, None at once
ZPollCaptchaOutEmb(kind, line) ==
    /\ variant = "embroidery"
    /\ z_pc = kind
    /\ wait_attempt = PollBudget(variant)
    /\ z_pc' = "returned"
    /\ z_ret' = RetFail(line)
    /\ UNCHANGED <<zipAux, notZip, zipLocals, zipHist, dirVars>>
    /\ UNCHANGED attHist

\* click.to_download returned False: look for a challenge marker (the lookup
\* is inside the inner try)
ZFalseCaptcha ==
    /\ z_pc = "false_captcha"
    /\ \/ /\ z_pc' = "false_solve"
          /\ captcha_seen' = TRUE
          /\ SolveEnter
          /\ blocked' = FALSE
       \/ /\ z_pc' = IF variant = "embroidery" THEN "false_after" ELSE "relocate"
          /\ UNCHANGED <<captcha_seen, solveVars>>
          /\ blocked' = TRUE
       \/ /\ z_pc' = IF variant = "embroidery" THEN "click_error" ELSE "relocate"
          /\ UNCHANGED <<captcha_seen, solveVars>>
          /\ blocked' = FALSE
    /\ UNCHANGED <<notZip, z_ret, zipLocals, zipHist, dirVars, zip_k,
                   gained_zip>>
    /\ UNCHANGED <<stale, refreshed, after_events>>
    /\ Invoked

\* solve_captcha_and_click_submit() after a click that returned False.
\* embroidery 1013-1018: on true the file list is recorded again;
\* T-shirt 1918-1920: on true before_files is the one recorded above.
ZFalseSolve ==
    /\ z_pc = "false_solve"
    /\ s_pc = "done"
    /\ IF s_ret
       THEN /\ before_files' = IF variant = "embroidery" THEN Listing ELSE before_files
            /\ wait_attempt' = 0
            /\ zip_k' = VisibleAtStart(before_files')
            /\ z_pc' = "poll_cap_false"
       ELSE /\ UNCHANGED <<before_files, wait_attempt, zip_k>>
            /\ z_pc' = IF variant = "embroidery" THEN "false_after" ELSE "relocate"
    /\ SolveLeave
    /\ UNCHANGED <<notZip, z_ret, attempt, download_button, zipHist, dirVars,
                   captcha_seen, gained_zip>>
    /\ blocked' = ~s_ret
    /\ UNCHANGED <<stale, refreshed, after_events, solves>>

\* embroidery 1051-1055 and 1060-1064: if attempt < max_retries - 1: refresh;
\* continue (a raise of refresh is caught by the inner except); on the last
\* attempt the iteration just ends
ZFalseAfter ==
    /\ z_pc = "false_after"
    /\ IF MoreAttempts(attempt)
       THEN \/ /\ attempt' = attempt + 1
               /\ z_pc' = "locate"
               /\ z_ret' = z_ret
            \/ /\ attempt' = attempt
               /\ z_pc' = "click_error"
               /\ z_ret' = z_ret
       ELSE Continue(LastLine)
    /\ UNCHANGED <<zipAux, notZip, download_button, before_files, wait_attempt,
                   zipHist, dirVars>>
    /\ refreshed' = (MoreAttempts(attempt) /\ z_pc' = "locate")
    /\ UNCHANGED <<blocked, stale, after_events, solves>>

\* T-shirt 1944-1945: the poll after a solved challenge ran out: go on to the
\* re-locate block
ZPollCaptchaOutTshirt ==
    /\ variant = "tshirt"
    /\ z_pc = "poll_cap_false"
    /\ wait_attempt = PollBudget(variant)
    /\ z_pc' = "relocate"
    /\ UNCHANGED <<zipAux, notZip, z_ret, zipLocals, zipHist, dirVars>>
    /\ UNCHANGED attHist

\* embroidery 1069-1075: "ElementLostError" in str(click_error):
\* if attempt < max_retries - 1: refresh; continue   (else: go on below)
ZClickErrorStale ==
    /\ z_pc = "click_error_stale"
    /\ IF MoreAttempts(attempt)
       THEN \/ /\ attempt' = attempt + 1
               /\ z_pc' = "locate"
            \/ /\ attempt' = attempt
               /\ z_pc' = "outer_except"
       ELSE /\ attempt' = attempt
            /\ z_pc' = "click_error"
    /\ UNCHANGED <<zipAux, notZip, z_ret, download_button, before_files,
                   wait_attempt, zipHist, dirVars>>
    /\ refreshed' = (z_pc' = "locate")
    /\ UNCHANGED <<blocked, stale, after_events, solves>>

\* embroidery 1077-1089: in the click handler, look for a challenge marker
ZClickError ==
    /\ z_pc = "click_error"
    /\ \/ /\ z_pc' = "err_solve"
          /\ captcha_seen' = TRUE
          /\ SolveEnter
       \/ /\ z_pc' = "direct"
          /\ UNCHANGED <<captcha_seen, solveVars>>
       \/ /\ z_pc' = "outer_except"
          /\ UNCHANGED <<captcha_seen, solveVars>>
    /\ UNCHANGED <<notZip, z_ret, zipLocals, zipHist, dirVars, zip_k,
                   gained_zip>>
    /\ after_events' = After({"challenge"})
    /\ Invoked
    /\ UNCHANGED <<blocked, stale, refreshed>>

\* embroidery 1093-1097: solve_captcha_and_click_submit(); on true the file
\* list is recorded again and the poll starts
ZErrSolve ==
    /\ z_pc = "err_solve"
    /\ s_pc = "done"
    /\ IF s_ret
       THEN /\ before_files' = Listing
            /\ wait_attempt' = 0
            /\ zip_k' = VisibleAtStart(Listing)
            /\ z_pc' = "poll_cap_err"
       ELSE /\ UNCHANGED <<before_files, wait_attempt, zip_k>>
            /\ z_pc' = "direct"
    /\ SolveLeave
    /\ UNCHANGED <<notZip, z_ret, attempt, download_button, zipHist, dirVars,
                   captcha_seen, gained_zip>>
    /\ UNCHANGED attHist

\* embroidery 1130-1141: download_url = download_button.attr('href') (raises
\* when no control was found); with a usable url the file list is recorded
\* and driver.download is called; any raise is swallowed (1166)
ZDirect ==
    /\ z_pc = "direct"
    /\ \/ /\ download_button
          /\ before_files' = Listing
          /\ snap_at_trigger' = Listing
          /\ wait_attempt' = 0
          /\ zip_k' = VisibleAtStart(Listing)
          /\ z_pc' = "poll_direct"
          /\ UNCHANGED <<attempt, z_ret>>
       \/ /\ download_button
          /\ before_files' = Listing
          /\ snap_at_trigger' = Listing
          /\ UNCHANGED <<wait_attempt, zip_k>>
          /\ Continue(LastLine)
       \/ /\ UNCHANGED <<before_files, wait_attempt, snap_at_trigger, zip_k>>
          /\ Continue(LastLine)
    /\ UNCHANGED <<notZip, download_button, locates, dirVars, captcha_seen,
                   gained_zip, solveVars>>
    /\ after_events' = After({"direct"})
    /\ UNCHANGED solves
    /\ UNCHANGED <<blocked, stale, refreshed>>

\* embroidery 1163-1164: the poll after the direct download ran out
ZPollDirectOut ==
    /\ z_pc = "poll_direct"
    /\ wait_attempt = PollBudget(variant)
    /\ Continue(LastLine)
    /\ UNCHANGED <<zipAux, notZip, download_button, before_files, wait_attempt,
                   zipHist, dirVars>>
    /\ UNCHANGED attHist

\* T-shirt 1951-1964 and 2002-2015: the control is looked up again and, when
\* found, clicked again; any raise is swallowed
ZRelocate ==
    /\ z_pc = "relocate"
    /\ \/ /\ wait_attempt' = 0
          /\ zip_k' = VisibleAtStart(before_files)
          /\ z_pc' = "poll_reclick"
          /\ UNCHANGED <<attempt, z_ret>>
       \/ /\ UNCHANGED <<wait_attempt, zip_k>>
          /\ Continue(LastLine)
    /\ UNCHANGED <<notZip, download_button, before_files, zipHist, dirVars,
                   captcha_seen, gained_zip, solveVars>>
    /\ after_events' = After(IF z_pc' = "poll_reclick" THEN {"locate", "click"}
                              ELSE {"locate"})
    /\ UNCHANGED solves
    /\ UNCHANGED <<blocked, stale, refreshed>>

\* T-shirt 1988-1989, 2038-2039: the poll after the second click ran out
ZPollReclickOut ==
    /\ z_pc = "poll_reclick"
    /\ wait_attempt = PollBudget(variant)
    /\ Continue(LastLine)
    /\ UNCHANGED <<zipAux, notZip, download_button, before_files, wait_attempt,
                   zipHist, dirVars>>
    /\ UNCHANGED attHist

\* except Exception as e (1169 / 2048): on the last attempt return False, None;
\* otherwise refresh (or re-open) the page, which may itself raise out of the
\* function, wait, and go round the loop
ZOuterExcept ==
    /\ z_pc = "outer_except"
    /\ IF IsLastAttempt(attempt)
       THEN /\ z_pc' = "returned"
            /\ z_ret' = RetFail(IF variant = "embroidery" THEN 1175 ELSE 2054)
            /\ attempt' = attempt
       ELSE \/ Continue(LastLine)
            \/ /\ z_pc' = "raised"
               /\ UNCHANGED <<attempt, z_ret>>
    /\ UNCHANGED <<zipAux, notZip, download_button, before_files, wait_attempt,
                   zipHist, dirVars>>
    /\ refreshed' = (z_pc' = "locate")
    /\ UNCHANGED <<blocked, stale, after_events, solves>>

ZipStep ==
    \/ SolveStep
    \/ ZLocate
    \/ ZNoButtonCaptcha
    \/ ZNoButtonSolve
    \/ ZNoButtonAfter
    \/ ZSnapshot
    \/ ZClick
    \/ PollTick("poll_click", IF variant = "embroidery" THEN 988 ELSE 1895)
    \/ PollTick("poll_cap_nobtn", 934)
    \/ PollTick("poll_cap_false", IF variant = "embroidery" THEN 1041 ELSE 1943)
    \/ PollTick("poll_cap_err", 1120)
    \/ PollTick("poll_direct", 1162)
    \/ PollTick("poll_reclick", 1987)
    \/ ZPollClickOut
    \/ ZPollCaptchaOutEmb("poll_cap_nobtn", 939)
    \/ ZPollCaptchaOutEmb("poll_cap_false", 1046)
    \/ ZPollCaptchaOutEmb("poll_cap_err", 1125)
    \/ ZFalseCaptcha
    \/ ZFalseSolve
    \/ ZFalseAfter
    \/ ZPollCaptchaOutTshirt
    \/ ZClickErrorStale
    \/ ZClickError
    \/ ZErrSolve
    \/ ZDirect
    \/ ZPollDirectOut
    \/ ZRelocate
    \/ ZPollReclickOut
    \/ ZOuterExcept

NextZip ==
    \/ ZipStep
    \/ EnvWrite

SpecZip == InitZip /\ [][NextZip]_vars

\* download_zip_file is sequential code: it always takes its next step
SpecZipLive == InitZip /\ [][NextZip]_vars /\ WF_vars(ZipStep)

----------------------------------------------------------------------------
(* SpecWait: AntiAntiCrawler.smart_wait                                    *)
(*                                                                         *)
(* Times are integers: multipliers and factors are in tenths (0.8 is 8),   *)
(* waits in milliseconds.  The program computes them in binary floating    *)
(* point, where 1.0 + k * 0.1 is within one unit in the last place of the  *)
(* decimal value.                                                          *)

\* request counts the session may have reached before the call
MaxRequests == 2200
\* random.uniform(a, b) is sampled at a + (b - a) * u / USteps, u in 0..USteps
USteps == 1

\* the default of min_time / max_time
None == -1

night_mode_multiplier == 8
day_mode_multiplier == 10
PEAK_MULTIPLIER == 12
\* every REQUEST_STEP requests the wait grows by FACTOR_STEP tenths
REQUEST_STEP == 200
FACTOR_STEP == 1
FACTOR_CAP == 20

\* self.WAIT_CONFIG: a pair, or a single number
WAIT_CONFIG ==
    [page_load |-> <<3, 8>>, element_find |-> <<2, 5>>,
     between_actions |-> <<4, 10>>, between_pages |-> <<10, 20>>,
     download_timeout |-> <<60>>, captcha_solve |-> <<10>>]

\* the calls enumerated.  Embroidery: a pair entry, a single-number entry, a
\* kind that is not in WAIT_CONFIG, and the override pair of process_subpage.
\* T-shirt: its wrapper always passes "between_actions" with a pair, the
\* short one or the long one.
WAIT_CALLS ==
    [embroidery |->
        {<<"page_load", None, None>>, <<"download_timeout", None, None>>,
         <<"other", None, None>>, <<"between_actions", 2, 5>>},
     tshirt |->
        {<<"between_actions", 3, 6>>, <<"between_actions", 8, 15>>}]

HOURS == 0..23

\* a variant that uses the night multiplier up to 8 o'clock
get_current_mode_multiplier_to_eight(current_hour_) ==
    IF 0 <= current_hour_ /\ current_hour_ <= 8
    THEN night_mode_multiplier
    ELSE IF (9 <= current_hour_ /\ current_hour_ <= 12)
            \/ (14 <= current_hour_ /\ current_hour_ <= 18)
         THEN PEAK_MULTIPLIER
         ELSE day_mode_multiplier

\* get_current_mode_multiplier, from the local hour
get_current_mode_multiplier(current_hour_) ==
    IF 0 <= current_hour_ /\ current_hour_ <= 7
    THEN night_mode_multiplier
    ELSE IF (9 <= current_hour_ /\ current_hour_ <= 12)
            \/ (14 <= current_hour_ /\ current_hour_ <= 18)
         THEN PEAK_MULTIPLIER
         ELSE day_mode_multiplier

\* a variant without the cap
RequestFactorUncapped(count) == 10 + (count \div REQUEST_STEP) * FACTOR_STEP

\* request_factor = min(1.0 + (request_count // 200) * 0.1, 2.0)
RequestFactor(count) ==
    Min({10 + (count \div REQUEST_STEP) * FACTOR_STEP, FACTOR_CAP})

\* config_min, config_max of a wait kind
ConfigRange(kind) ==
    IF kind \in DOMAIN WAIT_CONFIG
    THEN IF Len(WAIT_CONFIG[kind]) = 2
         THEN WAIT_CONFIG[kind]
         ELSE <<WAIT_CONFIG[kind][1], WAIT_CONFIG[kind][1]>>
    ELSE WAIT_CONFIG["between_actions"]

\* min_time / max_time after the defaults are filled in
EffectiveMin(kind, lo) == IF lo = None THEN ConfigRange(kind)[1] ELSE lo
EffectiveMax(kind, hi) == IF hi = None THEN ConfigRange(kind)[2] ELSE hi

\* t * multiplier * request_factor, in milliseconds
Scaled(t, m, factor) == t * m * factor * 10

\* a variant that stretches the bound whatever the coin shows
FatTailAlways(t, coin) == (t * 3) \div 2

\* if random.random() < 0.2: max_time = max_time * 1.5
FatTail(t, coin) == IF coin THEN (t * 3) \div 2 ELSE t

\* random.uniform(a, b) = a + (b - a) * random.random()
Uniform(a, b, u) == a + ((b - a) * u) \div USteps

\* the lower and the upper end smart_wait samples between
WaitLo(kind, lo, hour, count) ==
    Scaled(EffectiveMin(kind, lo), get_current_mode_multiplier(hour),
           RequestFactor(count))
WaitHi(kind, hi, hour, count, coin) ==
    FatTail(Scaled(EffectiveMax(kind, hi), get_current_mode_multiplier(hour),
                   RequestFactor(count)), coin)

\* smart_wait(wait_type, min_time, max_time), applied once to the drawn
\* request count
SmartWait ==
    /\ wait_calls = 0
    /\ \E call \in WAIT_CALLS[variant], hour \in HOURS, coin \in BOOLEAN, u \in 0..USteps :
          /\ wait_type' = call[1]
          /\ min_time' = call[2]
          /\ max_time' = call[3]
          /\ current_hour' = hour
          /\ multiplier' = get_current_mode_multiplier(hour)
          /\ fat_tail' = coin
          /\ wait_time' = Uniform(WaitLo(call[1], call[2], hour, request_count),
                                  WaitHi(call[1], call[3], hour, request_count,
                                         coin), u)
    /\ request_factor' = RequestFactor(request_count)
    /\ request_count' = request_count + 1
    /\ wait_calls' = wait_calls + 1
    /\ UNCHANGED <<variant, dbVars, orchVars, auxVars, breakVars, ctlVars,
                   moveVars, zipVars>>

\* the session has made any number of requests so far
InitWait ==
    /\ variant \in {"embroidery", "tshirt"}
    /\ crawled_urls = {}
    /\ scraped_urls = {}
    /\ page_progress = <<>>
    /\ db_ret = NoRet
    /\ InitOrchIdle
    /\ InitZipIdle
    /\ InitBreakIdle
    /\ InitMoveIdle
    /\ request_count \in 0..MaxRequests
    /\ wait_calls = 0
    /\ current_hour = 0
    /\ multiplier = 0
    /\ request_factor = 0
    /\ wait_type = "none"
    /\ min_time = None
    /\ max_time = None
    /\ fat_tail = FALSE
    /\ wait_time = 0

SpecWait == InitWait /\ [][SmartWait]_vars

----------------------------------------------------------------------------
(* SpecPace: the rest policy, at the places run() and scrape() consult it. *)
(* Only what the policy reads and writes is kept of the two loops: the     *)
(* listing pages, their items, and whether an item is counted.             *)

\* items the session may process
MaxProcessed == 501
\* items of a listing page
MaxLinks == 2
\* the session clock is read in whole hours, up to MaxHours
MaxHours == 13
\* short rests counted at one value of the count
MaxRests == 2

short_break_interval == 50
LONG_BREAK_INTERVAL == 500
max_continuous_hours == 12

\* check_short_break(items_processed)
check_short_break(items_processed) ==
    items_processed % short_break_interval = 0 /\ items_processed > 0

\* a variant that ignores the coin
check_long_run_protection_no_coin(items_processed, elapsed_hours, coin) ==
    \/ elapsed_hours >= max_continuous_hours
    \/ items_processed % LONG_BREAK_INTERVAL = 0 /\ items_processed > 0

\* check_long_run_protection(items_processed); coin is random.random() < 0.4
check_long_run_protection(items_processed, elapsed_hours, coin) ==
    \/ elapsed_hours >= max_continuous_hours
    \/ items_processed % LONG_BREAK_INTERVAL = 0 /\ items_processed > 0 /\ coin

\* the coin is drawn only below the ceiling, at a positive multiple
CoinDrawn(items_processed, elapsed_hours) ==
    /\ elapsed_hours < max_continuous_hours
    /\ items_processed % LONG_BREAK_INTERVAL = 0
    /\ items_processed > 0

\* if check_long_run_protection(n): take_big_break()
\* if check_short_break(n): take_short_break()
\* The clock has moved on to `ticks` when the first check reads it;
\* take_big_break resets session_start_time, take_short_break ends the rest
\* that was due.
Checks(ticks, coin) ==
    LET hours == ticks
        big == check_long_run_protection(total_processed, hours, coin)
        short == check_short_break(total_processed)
    IN  /\ check_n' = total_processed
        /\ long_hours' = hours
        /\ long_coin' = (coin /\ CoinDrawn(total_processed, hours))
        /\ long_ret' = big
        /\ short_ret' = short
        /\ short_rests' = LET base == IF check_n = total_processed
                                      THEN short_rests ELSE 0
                          IN  IF short THEN Min({base + 1, MaxRests}) ELSE base
        /\ session_ticks' = IF big THEN 0 ELSE ticks

\* the rest that is due once the checks have run
DueAfterChecks == rest_due /\ ~check_short_break(total_processed)

\* total_processed += 1, and whether the new count asks for a short rest
Count(counted, due) ==
    /\ total_processed' = IF counted THEN total_processed + 1
                          ELSE total_processed
    /\ rest_due' = IF counted /\ (total_processed + 1) % short_break_interval = 0
                   THEN TRUE ELSE due

notPace == <<variant, dbVars, orchVars, auxVars, waitVars, ctlVars, moveVars,
            zipVars>>

\* run() or scrape() is entered
PaceBegin ==
    /\ p_pc = "idle"
    /\ p_pc' = "page"
    /\ UNCHANGED <<notPace, total_processed, session_ticks, total_links, p_idx,
                   rest_due, started_due, check_n, long_hours, long_coin,
                   long_ret, short_ret, short_rests>>

\* run(): the top of a page iteration: the two checks, then the page's links
PRunPageTop ==
    /\ variant = "embroidery"
    /\ p_pc = "page"
    /\ \E ticks \in session_ticks..MaxHours :
          \E coin \in IF CoinDrawn(total_processed, ticks)
                      THEN BOOLEAN ELSE {FALSE} : Checks(ticks, coin)
    /\ rest_due' = DueAfterChecks
    /\ \E n \in 0..MaxLinks :
          /\ total_links' = n
          /\ p_pc' = IF n = 0 THEN "page" ELSE "item"
    /\ p_idx' = 0
    /\ UNCHANGED <<notPace, total_processed, started_due>>

\* run(): process_subpage for the next link of the page.  The item is not
\* counted when it is skipped, has no title, or raises.
PRunItem ==
    /\ variant = "embroidery"
    /\ p_pc = "item"
    /\ total_processed < MaxProcessed
    /\ \E counted \in BOOLEAN :
          /\ Count(counted, rest_due)
          /\ started_due' = (started_due \/ (counted /\ rest_due))
    /\ p_idx' = p_idx + 1
    /\ p_pc' = IF p_idx + 1 = total_links THEN "page" ELSE "item"
    /\ UNCHANGED <<notPace, session_ticks, total_links, check_n, long_hours,
                   long_coin, long_ret, short_ret, short_rests>>

\* scrape(): a listing page is fetched; no product ends the crawl
PScrapePage ==
    /\ variant = "tshirt"
    /\ p_pc = "page"
    /\ \E n \in 0..MaxLinks :
          /\ total_links' = n
          /\ p_pc' = IF n = 0 THEN "done" ELSE "item"
    /\ p_idx' = 0
    /\ UNCHANGED <<notPace, total_processed, session_ticks, rest_due,
                   started_due, check_n, long_hours, long_coin, long_ret,
                   short_ret, short_rests>>

\* scrape(): one iteration of the product loop: the two checks, then the
\* item is skipped (already scraped), or stops the crawl (too old), or is
\* processed and counted
PScrapeItem ==
    /\ variant = "tshirt"
    /\ p_pc = "item"
    /\ total_processed < MaxProcessed
    /\ \E ticks \in session_ticks..MaxHours :
          \E coin \in IF CoinDrawn(total_processed, ticks)
                      THEN BOOLEAN ELSE {FALSE} : Checks(ticks, coin)
    /\ \E what \in {"skip", "stale", "process"} :
          /\ Count(what = "process", DueAfterChecks)
          /\ started_due' = (started_due \/ (what # "skip" /\ DueAfterChecks))
          /\ p_pc' = IF what = "stale" THEN "done"
                     ELSE IF p_idx + 1 = total_links THEN "page" ELSE "item"
    /\ p_idx' = p_idx + 1
    /\ UNCHANGED <<notPace, total_links>>

NextPace ==
    \/ PaceBegin
    \/ PRunPageTop
    \/ PRunItem
    \/ PScrapePage
    \/ PScrapeItem

\* the program is constructed: nothing processed, the session just started
InitPace ==
    /\ variant \in {"embroidery", "tshirt"}
    /\ crawled_urls = {}
    /\ scraped_urls = {}
    /\ page_progress = <<>>
    /\ db_ret = NoRet
    /\ InitOrchIdle
    /\ InitZipIdle
    /\ InitWaitIdle
    /\ InitBreakIdle
    /\ InitMoveIdle

SpecPace == InitPace /\ [][NextPace]_vars

----------------------------------------------------------------------------
(* The pacing controller as an object: AntiAntiCrawler's counter and       *)
(* session clock under any sequence of calls of its methods.  The clock    *)
(* is in ticks of half an hour.                                            *)

\* smart_wait calls of one session
MaxWaits == 51
\* how far the clock runs, in ticks
MaxClock == 51

TICKS_PER_HOUR == 2
STATS_INTERVAL == 50
big_break_hours == 1
\* random.uniform(0, 0.5) hours, in ticks
BREAK_EXTRA == 0..1
\* the time that passes between two calls: six hours, in ticks
CLOCK_STEP == 12
\* datetime.now().hour of the calls: a peak hour (the multiplier is not 1)
CTL_HOURS == {10}
\* items_processed as the orchestrators pass it: below LONG_BREAK_INTERVAL,
\* so that a long rest is due to the runtime ceiling alone
CTL_ITEMS == {0, short_break_interval}

\* a variant that reports on every call
StatsDueEveryCall(count) == TRUE

\* if self.request_count % 50 == 0: (after the increment)
StatsDue(count) == count % STATS_INTERVAL = 0

\* a variant that restarts the session at the start of the rest
BreakResetAtStart(start, length) == start

\* time.sleep(break_seconds); self.session_start_time = time.time()
BreakReset(start, length) == start + length

\* (time.time() - self.session_start_time) / 3600, in whole hours
ElapsedHours == (now - session_start_time) \div TICKS_PER_HOUR

notCtl == <<variant, dbVars, orchVars, auxVars, breakVars, moveVars, zipVars>>

\* time passes between two calls
CtlTick ==
    /\ now + CLOCK_STEP <= MaxClock
    /\ now' = now + CLOCK_STEP
    /\ ctl_op' = [op |-> "tick"]
    /\ stats_emitted' = FALSE
    /\ UNCHANGED <<notCtl, waitVars, session_start_time, last_break_end>>

\* smart_wait(wait_type, min_seconds, max_seconds)
CtlSmartWait ==
    /\ request_count < MaxWaits
    /\ \E call \in WAIT_CALLS[variant], hour \in CTL_HOURS, coin \in BOOLEAN,
          u \in 0..USteps :
          /\ wait_type' = call[1]
          /\ min_time' = call[2]
          /\ max_time' = call[3]
          /\ current_hour' = hour
          /\ multiplier' = get_current_mode_multiplier(hour)
          /\ fat_tail' = coin
          /\ wait_time' = Uniform(WaitLo(call[1], call[2], hour, request_count),
                                  WaitHi(call[1], call[3], hour, request_count,
                                         coin), u)
          /\ ctl_op' = [op |-> "smart_wait"]
    /\ request_factor' = RequestFactor(request_count)
    /\ request_count' = request_count + 1
    /\ stats_emitted' = StatsDue(request_count + 1)
    /\ UNCHANGED <<notCtl, wait_calls, now, session_start_time, last_break_end>>

\* check_long_run_protection(items_processed)
CtlCheckLong ==
    /\ \E n \in CTL_ITEMS :
          \E coin \in IF CoinDrawn(n, ElapsedHours) THEN BOOLEAN ELSE {FALSE} :
             ctl_op' = [op |-> "check_long", items |-> n, coin |-> coin,
                        ret |-> check_long_run_protection(n, ElapsedHours, coin)]
    /\ stats_emitted' = FALSE
    /\ UNCHANGED <<notCtl, waitVars, now, session_start_time, last_break_end>>

\* take_big_break(), which the orchestrators call when the check said True
CtlBigBreak ==
    /\ ctl_op.op = "check_long"
    /\ ctl_op.ret
    /\ \E extra \in BREAK_EXTRA :
          LET length == big_break_hours * TICKS_PER_HOUR + extra
          IN  /\ now + length <= MaxClock
              /\ now' = now + length
              /\ session_start_time' = BreakReset(now, length)
              /\ last_break_end' = now + length
    /\ ctl_op' = [op |-> "big_break"]
    /\ stats_emitted' = FALSE
    /\ UNCHANGED <<notCtl, waitVars>>

\* check_short_break(items_processed)
CtlCheckShort ==
    /\ \E n \in CTL_ITEMS :
          ctl_op' = [op |-> "check_short", items |-> n,
                     ret |-> check_short_break(n)]
    /\ stats_emitted' = FALSE
    /\ UNCHANGED <<notCtl, waitVars, now, session_start_time, last_break_end>>

\* take_short_break(): 30 to 60 seconds, less than a tick
CtlShortBreak ==
    /\ ctl_op.op = "check_short"
    /\ ctl_op.ret
    /\ ctl_op' = [op |-> "short_break"]
    /\ stats_emitted' = FALSE
    /\ UNCHANGED <<notCtl, waitVars, now, session_start_time, last_break_end>>

NextCtl ==
    \/ CtlTick
    \/ CtlSmartWait
    \/ CtlCheckLong
    \/ CtlBigBreak
    \/ CtlCheckShort
    \/ CtlShortBreak

\* AntiAntiCrawler(): request_count = 0, session_start_time = time.time()
InitCtl ==
    /\ variant \in {"embroidery", "tshirt"}
    /\ crawled_urls = {}
    /\ scraped_urls = {}
    /\ page_progress = <<>>
    /\ db_ret = NoRet
    /\ InitOrchIdle
    /\ InitZipIdle
    /\ InitWaitIdle
    /\ InitBreakIdle
    /\ InitMoveIdle

SpecCtl == InitCtl /\ [][NextCtl]_vars

----------------------------------------------------------------------------
(* process_download (T-shirt program): every PNG of an archive is moved    *)
(* into save_root under the name get_unique_filename returns.  File names  *)
(* are the sequences of their characters.                                  *)

\* PNG files in one archive
MaxPngs == 2
\* highest counter among the names already in save_root
MaxTaken == 2

DOT_PNG == <<".", "p", "n", "g">>
\* cleaned titles: clean_title keeps letters, digits and parentheses
TITLES == {<<"a">>, <<"a", "(", "1", ")">>}
\* str(counter)
DIGITS == <<"1", "2", "3", "4", "5", "6", "7", "8", "9">>
Str(n) == <<DIGITS[n]>>

\* target_name = f"{final_title}.png"
TargetName(title) == title \o DOT_PNG

\* name, ext = os.path.splitext(filename): split at the last dot
LastDot(f) == Max({i \in 1..Len(f) : f[i] = "."} \cup {0})
SplitExt(f) ==
    IF LastDot(f) <= 1 THEN <<f, <<>>>>
    ELSE <<SubSeq(f, 1, LastDot(f) - 1), SubSeq(f, LastDot(f), Len(f))>>

\* f"{name}({counter}){ext}"
Numbered(filename, n) ==
    SplitExt(filename)[1] \o <<"(">> \o Str(n) \o <<")">> \o SplitExt(filename)[2]

\* a variant that finds no name taken
PathExistsNever(dir, f) == FALSE

\* os.path.exists(os.path.join(directory, new_filename))
PathExists(dir, f) == f \in dir

\* names save_root may hold when process_download is called
TAKEN ==
    {TargetName(t) : t \in TITLES}
        \cup {Numbered(TargetName(t), n) : t \in TITLES, n \in 1..MaxTaken}

notMove == <<variant, dbVars, orchVars, auxVars, waitVars, breakVars, ctlVars,
            zipVars>>

\* for i, png_file in enumerate(png_files): target_name = ...;
\* get_unique_filename is entered: counter = 1, new_filename = filename
MvNextPng ==
    /\ m_pc = "for"
    /\ IF png_left = 0
       THEN /\ m_pc' = "done"
            /\ UNCHANGED <<counter, new_filename>>
       ELSE /\ m_pc' = "while"
            /\ counter' = 1
            /\ new_filename' = TargetName(final_title)
    /\ UNCHANGED <<notMove, save_root, final_title, png_left, moved, clobbered>>

\* while os.path.exists(...): new_filename = f"{name}({counter}){ext}"; counter += 1
MvWhile ==
    /\ m_pc = "while"
    /\ PathExists(save_root, new_filename)
    /\ new_filename' = Numbered(TargetName(final_title), counter)
    /\ counter' = counter + 1
    /\ UNCHANGED <<notMove, m_pc, save_root, final_title, png_left, moved,
                   clobbered>>

\* return new_filename
MvReturn ==
    /\ m_pc = "while"
    /\ ~PathExists(save_root, new_filename)
    /\ m_pc' = "move"
    /\ UNCHANGED <<notMove, save_root, final_title, png_left, counter,
                   new_filename, moved, clobbered>>

\* shutil.move(png_file, os.path.join(self.save_root, unique_name))
MvMove ==
    /\ m_pc = "move"
    /\ clobbered' = (clobbered \/ new_filename \in save_root)
    /\ save_root' = save_root \cup {new_filename}
    /\ moved' = Append(moved, new_filename)
    /\ png_left' = png_left - 1
    /\ m_pc' = "for"
    /\ UNCHANGED <<notMove, final_title, counter, new_filename>>

NextMove ==
    \/ MvNextPng
    \/ MvWhile
    \/ MvReturn
    \/ MvMove

\* process_download has found the PNGs of the archive; save_root holds any
\* of the names earlier items can have left there
InitMove ==
    /\ variant = "tshirt"
    /\ crawled_urls = {}
    /\ scraped_urls = {}
    /\ page_progress = <<>>
    /\ db_ret = NoRet
    /\ InitOrchIdle
    /\ InitZipIdle
    /\ InitWaitIdle
    /\ InitBreakIdle
    /\ m_pc = "for"
    /\ save_root \in SUBSET TAKEN
    /\ final_title \in TITLES
    /\ png_left \in 1..MaxPngs
    /\ counter = 0
    /\ new_filename = <<>>
    /\ moved = <<>>
    /\ clobbered = FALSE

SpecMove == InitMove /\ [][NextMove]_vars

\* the loops are sequential code: the next statement is always executed
SpecMoveLive == InitMove /\ [][NextMove]_vars /\ WF_vars(NextMove)

----------------------------------------------------------------------------
\* C1: a URL whose ledger status is done (success, partial_success,
\* downloaded) when the orchestrator encounters it is skipped: nothing is done
\* for it (no navigation, no download attempt, no ledger write); in the
\* embroidery program the links kept after the page filter are never done.
C1_DoneUrlSkipped ==
    /\ enc_status \in DoneStatuses => item_log = <<>>
    /\ pc = "links_fetched" =>
         \A i \in 1..Len(page_links) :
            StatusOf(crawled_urls, page_links[i]) \notin DoneStatuses

\* a done URL was encountered by scrape() and skipped
C1_Witness ==
    /\ pc = "s_items"
    /\ idx >= 1
    /\ enc_status \in DoneStatuses
    /\ StatusOf(scraped_urls, page_links[idx]) = enc_status

\* the embroidery page filter dropped a done URL that the page listed
C1_WitnessFilter ==
    /\ pc = "links_fetched"
    /\ \E i \in 1..Len(listed) : StatusOf(crawled_urls, listed[i]) \in DoneStatuses

\* C4: a run started after an earlier one begins at the page stored by the
\* last completed update_page_progress.
C4_ResumeAtCursor ==
    (pc = "started" /\ last_update # 0) => start_page = last_update

\* C5: an item that is not skipped gets exactly one ledger write, and that
\* write is the last effect performed for the item.
C5_OneWriteLast ==
    (pc \in {"item_done", "s_item_end"} /\ item_log # <<>>) =>
        Writes(item_log) = {Len(item_log)}

\* C6 as stated: every page iteration, with or without an exception, ends
\* with exactly one cursor update, of page_num + 1, made after process_subpage
\* returned for every link of the page.
C6_ExactlyOneUpdate ==
    pc = "page_end" =>
        /\ Len(upd_log) = 1
        /\ upd_log[1].arg = page_num + 1
        /\ upd_log[1].returned = upd_log[1].total

\* C6 amended: every cursor update of a page iteration is of page_num + 1; an
\* iteration that raises nothing makes exactly one, after every link was
\* processed; an iteration that raises makes the handler's update as its
\* last, preceded by the regular one (made after every link) only when the
\* exception came after it.
C6_CursorUpdate ==
    pc = "page_end" =>
        /\ \A i \in 1..Len(upd_log) : upd_log[i].arg = page_num + 1
        /\ ~raised =>
             /\ Len(upd_log) = 1
             /\ ~upd_log[1].handler
             /\ upd_log[1].returned = upd_log[1].total
        /\ raised =>
             /\ Len(upd_log) \in {1, 2}
             /\ upd_log[Len(upd_log)].handler
             /\ Len(upd_log) = 2 =>
                  /\ ~upd_log[1].handler
                  /\ upd_log[1].returned = upd_log[1].total

\* a page with MaxUrls links was dispatched completely and its cursor updated
C6_Witness ==
    /\ pc = "page_end"
    /\ ~raised
    /\ Len(page_links) = MaxUrls
    /\ idx = Len(page_links)
    /\ Len(upd_log) = 1

\* an exception after the regular update made the handler update again
C6_WitnessTwice ==
    /\ pc = "page_end"
    /\ raised
    /\ Len(upd_log) = 2

----------------------------------------------------------------------------
\* C7 (as stated): download_zip_file returns a non-success outcome only in
\* the last of the max_retries attempts, never while attempts remain.
C7_FailureOnlyAfterAllAttempts ==
    (z_pc = "returned" /\ ~z_ret.ok) => attempt = MAX_RETRIES - 1

\* C7 (amended): a non-success outcome is returned either in the last
\* attempt, or, in the embroidery variant only, at once by the return that
\* follows a poll that ran out after the resolver had reported success
\* (lines 939, 1046, 1125), however many attempts remain.
C7_FailureAfterAllAttemptsOrSolvedChallenge ==
    (z_pc = "returned" /\ ~z_ret.ok) =>
        \/ attempt = MAX_RETRIES - 1
        \/ /\ variant = "embroidery"
           /\ z_ret.line \in {939, 1046, 1125}
           /\ wait_attempt = POLL_EMBROIDERY

\* the embroidery variant gave up in its first attempt after a solved challenge
C7_Witness ==
    /\ z_pc = "returned"
    /\ ~z_ret.ok
    /\ variant = "embroidery"
    /\ attempt = 0
    /\ z_ret.line = 1046

C9_SuccessPathIsNewZip ==
    (z_pc = "returned" /\ z_ret.ok) =>
        \E f \in FILES :
            /\ z_ret.path = <<DOWNLOAD_PATH, f>>
            /\ Len(f) >= 4
            /\ Lower(f)[Len(f) - 3] = "."
            /\ Lower(f)[Len(f) - 2] = "z"
            /\ Lower(f)[Len(f) - 1] = "i"
            /\ Lower(f)[Len(f)] = "p"
            /\ dir_exists
            /\ f \in dir_files
            /\ f \notin before_files

\* success was returned while two new .zip names (one in upper case) and a
\* new non-matching name were in the directory, and the upper-case one won
C9_Witness ==
    /\ z_pc = "returned"
    /\ z_ret.ok
    /\ before_files = {}
    /\ dir_files = FILES
    /\ z_ret.path = <<DOWNLOAD_PATH, ZipUpper>>

\* C10 (as stated): the poll that follows a click, a detected challenge and a
\* resolver success compares the directory with the before-set that was
\* recorded before that click.
C10_PollUsesTriggerSnapshot ==
    z_pc \in {"poll_cap_false", "poll_cap_err"} => before_files = snap_at_trigger

C12_NoZipNoMarkerReturnsFailure ==
    (/\ z_pc \in {"returned", "raised"}
     /\ ~gained_zip
     /\ ~captcha_seen) =>
        /\ z_pc = "returned"
        /\ ~z_ret.ok
        /\ z_ret.path = "None"
        /\ locates = MAX_RETRIES

\* C18: solve_captcha_and_click_submit always comes to its end with a
\* boolean result; whether solveCaptcha returned or raised, the submit step
\* is reached, and the result is true exactly when the submit control was
\* found and clicked.
C18_ResolverResult ==
    /\ s_pc \in {"idle", "call", "sc_anchor", "sc_iframe", "sc_audio_button",
                 "sc_detected", "sc_audio", "submit", "submit_click", "done"}
    /\ s_ret \in BOOLEAN
    /\ s_pc \in {"submit", "submit_click", "done"} =>
          solver_out \in SOLVER_RETURNS \cup SOLVER_RAISES
    /\ s_pc = "done" => (s_ret <=> (submit_found /\ submit_clicked))

\* solveCaptcha raised and the resolver still reported true
C18_Witness ==
    /\ s_pc = "done"
    /\ solver_out \in SOLVER_RAISES
    /\ submit_found
    /\ submit_clicked
    /\ s_ret

C20_DetectedAtIterationK ==
    /\ (z_pc = "returned" /\ z_ret.ok /\ z_ret.line \in {988, 1895}) =>
          /\ zip_k >= 1
          /\ wait_attempt = zip_k
          /\ \E f \in dir_files \ before_files :
                /\ EndsWith(Lower(f), DotZip)
                /\ z_ret.path = <<DOWNLOAD_PATH, f>>
    /\ (z_pc = "poll_click" /\ zip_k # 0) => wait_attempt = zip_k - 1

\* the only new .zip name became visible to the third iteration, and success
\* was returned with three iterations run
C20_Witness ==
    /\ z_pc = "returned"
    /\ z_ret.ok
    /\ z_ret.line \in {988, 1895}
    /\ zip_k = 3
    /\ wait_attempt = 3
    /\ Cardinality({f \in dir_files \ before_files : EndsWith(Lower(f), DotZip)}) = 1

\* C13: an item whose processing raised an exception, or that acquired no
\* artifact, is in the ledger with status failed when its processing ends,
\* and the orchestrator then goes on in the same page loop, with the same
\* list of links and the same position in it (both programs).
C13_FailedItemRecordedAndLoopGoesOn ==
    /\ []((/\ pc \in {"item_done", "s_item_end"}
           /\ item_log # <<>>
           /\ \/ "raise" \in Range(item_log)
              \/ variant = "embroidery" /\ ~img_success /\ ~pdf_success /\ ~zip_success
              \/ variant = "tshirt" /\ ~zip_success) =>
             StatusOf(Ledger, CurUrl) = "failed")
    /\ [][(pc \in {"item_done", "s_item_end"} /\ item_log # <<>>) =>
            /\ pc' \in {"item_done", "s_item_end", "next_item", "page_update",
                        "s_items", "stopped"}
            /\ UNCHANGED <<page_num, page_links, idx, crawled_urls, scraped_urls>>]_vars

\* after an item whose processing raised, the embroidery orchestrator stands
\* before the next link of the same page
C13_Witness ==
    /\ pc = "next_item"
    /\ "raise" \in Range(item_log)
    /\ StatusOf(crawled_urls, CurUrl) = "failed"
    /\ idx < Len(page_links)

\* C14: when process_subpage has gone through its three downloads without an
\* exception, the status it records is success if the archive succeeded,
\* partial_success if the archive failed and the image or the PDF
\* succeeded, failed if nothing succeeded; and it returns true exactly when
\* at least one of the three succeeded.
C14_StatusTable ==
    (/\ pc = "item_done"
     /\ "zip" \in Range(item_log)
     /\ "raise" \notin Range(item_log)) =>
        /\ zip_success => StatusOf(crawled_urls, CurUrl) = "success"
        /\ (~zip_success /\ (img_success \/ pdf_success)) =>
              StatusOf(crawled_urls, CurUrl) = "partial_success"
        /\ (~zip_success /\ ~img_success /\ ~pdf_success) =>
              StatusOf(crawled_urls, CurUrl) = "failed"
        /\ ps_ret <=> (img_success \/ pdf_success \/ zip_success)

\* the archive was the only artifact acquired: success, and true returned
C14_Witness ==
    /\ pc = "item_done"
    /\ "zip" \in Range(item_log)
    /\ "raise" \notin Range(item_log)
    /\ zip_success
    /\ ~img_success
    /\ ~pdf_success
    /\ StatusOf(crawled_urls, CurUrl) = "success"
    /\ ps_ret

\* C15: after a URL is marked, the ledger holds exactly one entry for it,
\* with the status, error_message and download_path of that (latest) call;
\* the ledger has as many entries as distinct URLs were ever marked.
C15_LedgerUpsert ==
    /\ Cardinality(Ledger) = Cardinality(api_marked)
    /\ \A u \in api_marked : Cardinality({r \in Ledger : r.url = u}) = 1
    /\ db_ret.op = "mark" =>
          {r \in Ledger : r.url = db_ret.url} =
             {[url |-> db_ret.url, status |-> db_ret.status,
               error_message |-> db_ret.error_message,
               download_path |-> db_ret.download_path]}

\* a URL was marked a second time with another status, and both URLs are marked
C15_Witness ==
    /\ remarked
    /\ db_ret.op = "mark"
    /\ api_marked = URLS

\* C16: from one call of get_page_progress to the next, restarts of run()
\* included, the current_page it returns for the base URL does not decrease.
C16_CursorNeverDecreases == [][got' >= got]_vars

\* run() was started a second time after the cursor had been updated, and
\* get_page_progress returned a value again
C16_Witness ==
    /\ run_no = 2
    /\ pc = "started"
    /\ got >= 1
    /\ last_update > 1

\* C17: in scrape(), once an item that is not done shows a listed date with
\* diff.days > 2, the stop flag is set: nothing is downloaded and no ledger
\* entry is written for that item, no other item and no other page is
\* visited, and the only statement left is the closing of the ledger and of
\* the browser.
C17_StaleItemStopsCrawl ==
    /\ (variant = "tshirt" /\ diff_days > STALE_DAYS) => stop_scraping
    /\ stop_scraping =>
          /\ diff_days > 2
          /\ pc \in {"s_closing", "stopped"}
          /\ item_log = <<"navigate">>
          /\ enc_status \notin DoneStatuses
          /\ StatusOf(scraped_urls, CurUrl) = enc_status

\* the crawl was stopped by the first of two listed items, 3 days old
C17_Witness ==
    /\ stop_scraping
    /\ pc = "stopped"
    /\ diff_days = 3
    /\ idx = 1
    /\ Len(page_links) = 2
    /\ page_links[2] # page_links[1]
    /\ StatusOf(scraped_urls, page_links[2]) = "none"

----------------------------------------------------------------------------
\* C21: the volume multiplier smart_wait uses for a call made at request count
\* n is min(2.0, 1 + 0.1 * floor(n / 200)): 1.0 at n = 0, 1.1 at n = 200, 2.0
\* for every n >= 2000; it is not smaller than the one of the count before
\* and it never exceeds 2.0.
C21_VolumeMultiplier ==
    wait_calls > 0 =>
        LET n == request_count - 1
            k == n \div 200
        IN  /\ request_factor = (IF 10 + k < 20 THEN 10 + k ELSE 20)
            /\ (n = 0 => request_factor = 10)
            /\ (n = 200 => request_factor = 11)
            /\ (n >= 2000 => request_factor = 20)
            /\ request_factor <= 20
            /\ (n > 0 => RequestFactor(n - 1) <= request_factor)

\* a call made past the point where the cap starts to bind
C21_Witness ==
    /\ wait_calls > 0
    /\ request_count - 1 = 2200
    /\ request_factor = 20

\* C22: for every wait kind and every override pair with min <= max, the value
\* smart_wait returns lies in [min * m * v, max * m * v * 1.5], with m the
\* time-of-day multiplier and v the volume multiplier of the request count
\* before the call; it lies in [min * m * v, max * m * v] when the fat-tail
\* coin fails; the lower end is not stretched by the fat-tail factor.
C22_WaitWithinBounds ==
    wait_calls > 0 =>
        LET lo == EffectiveMin(wait_type, min_time)
                    * multiplier * request_factor * 10
            hi == EffectiveMax(wait_type, max_time)
                    * multiplier * request_factor * 10
        IN  /\ EffectiveMin(wait_type, min_time)
                 <= EffectiveMax(wait_type, max_time)
            /\ lo <= wait_time
            /\ 10 * wait_time <= 15 * hi
            /\ (~fat_tail => wait_time <= hi)

\* a fat-tail call that returned the unstretched lower end, and one that
\* returned more than the tight upper end, are both possible; this is the
\* second
C22_Witness ==
    /\ wait_calls > 0
    /\ fat_tail
    /\ wait_type = "download_timeout"
    /\ request_count - 1 = 400
    /\ current_hour = 10
    /\ wait_time = 60 * 12 * 12 * 15

\* C23: get_current_mode_multiplier is 0.8 for the hours 0..7, 1.2 for 9..12
\* and 14..18, and 1.0 for every other hour (8, 13, 19..23).
C23_ModeMultiplier ==
    wait_calls > 0 =>
        /\ (current_hour \in 0..7 => multiplier = 8)
        /\ (current_hour \in (9..12) \cup (14..18) => multiplier = 12)
        /\ (current_hour \in {8, 13} \cup (19..23) => multiplier = 10)

\* a call at 8 o'clock, the hour between the night and the peak
C23_Witness ==
    /\ wait_calls > 0
    /\ current_hour = 8
    /\ multiplier = 10

\* C24: whenever the processed-item count reaches an exact positive multiple
\* of the short-break interval (50), a short rest is taken before the next
\* item is processed, in both programs and wherever within a page the count
\* reaches the multiple.
C24_RestBeforeNextItem == ~started_due

\* C25: check_long_run_protection(n) returns true iff the session has run for
\* max_continuous_hours (12) or more, or n is a positive multiple of 500 and
\* the 0.4 coin succeeds; below the ceiling it is never true when n is 0 or
\* not a multiple of 500.
C25_LongRunProtection ==
    check_n >= 0 =>
        /\ long_ret <=> (\/ long_hours >= 12
                         \/ (check_n > 0 /\ check_n % 500 = 0 /\ long_coin))
        /\ (long_hours < 12 /\ (check_n = 0 \/ check_n % 500 # 0) => ~long_ret)

\* the 500th item was counted, the session is young and the coin succeeded
C25_Witness ==
    /\ check_n = 500
    /\ long_hours < 12
    /\ long_coin
    /\ long_ret

\* C26: after the process was terminated, at whatever point, the ledger
\* reports a URL as done only if the processing of that item ran to its end
\* (its artifacts were extracted and saved), so that an item lost in flight is
\* processed again after the restart.
C26_DoneOnlyIfCompleted ==
    pc = "stopped" =>
        \A u \in URLS : StatusOf(Ledger, u) \in DoneStatuses => u \in completed

\* C27: when the poll that follows a successful trigger is exhausted without
\* a new .zip file, download_zip_file looks for a verification challenge
\* before it starts the next outer attempt: the exhausted poll is never
\* followed at once by the Locate of the next attempt.
C27_ChallengeCheckAfterExhaustedPoll ==
    [][~(z_pc = "poll_click" /\ z_pc' = "locate")]_vars

\* C28: when an attempt is blocked (no control found, or the trigger reports
\* failure) and no challenge is present or the resolver reports false, the
\* attempt is consumed and the page is refreshed before the next Locate; no
\* control is located or clicked again within that attempt.
C28_BlockedAttemptRefreshes ==
    blocked =>
        /\ after_events \cap {"locate", "click"} = {}
        /\ (z_pc = "locate" => refreshed)

\* C29: when the trigger raises a stale-element fault, the page is refreshed
\* and the retry is a new outer attempt; the attempt in which the fault was
\* raised does no challenge handling, no second click and no direct download.
C29_StaleFaultRefreshes ==
    stale =>
        /\ after_events = {}
        /\ (z_pc = "locate" => refreshed)

\* the download attempts of the current item, in the order they were made
Attempts(log) == SelectSeq(log, LAMBDA e : e \in {"image", "pdf", "zip"})
DOWNLOAD_ORDER == <<"image", "pdf", "zip">>

\* C30: process_subpage attempts the image, then the PDF, then the archive,
\* each exactly once per item and whatever the earlier results were; once the
\* image and the PDF have been attempted their results are never taken back
\* (no later step of the item removes anything but the archive itself), and
\* an item whose archive download failed or raised still ends with a ledger
\* entry.
C30_IndependentDownloads ==
    /\ [](variant = "embroidery" =>
            /\ \E n \in 0..3 : Attempts(item_log) = SubSeq(DOWNLOAD_ORDER, 1, n)
            /\ (pc = "item_done" /\ "image" \in Range(item_log)) =>
                  /\ Attempts(item_log) = DOWNLOAD_ORDER
                  /\ StatusOf(crawled_urls, CurUrl) # "none"
                  /\ (~zip_success /\ "raise" \notin Range(item_log)
                         /\ (img_success \/ pdf_success)) =>
                        StatusOf(crawled_urls, CurUrl) = "partial_success")
    /\ [][(variant = "embroidery"
            /\ pc \in {"ps_zip", "ps_extract", "ps_backup", "ps_mark", "ps_except"}) =>
              /\ img_success' = img_success
              /\ pdf_success' = pdf_success
              /\ Attempts(item_log') \in {Attempts(item_log),
                                          Append(Attempts(item_log), "zip")}]_vars

\* the image failed, the PDF was saved and the archive failed: all three were
\* attempted in order and the item is in the ledger as partial_success
C30_Witness ==
    /\ variant = "embroidery"
    /\ pc = "item_done"
    /\ Attempts(item_log) = DOWNLOAD_ORDER
    /\ ~img_success
    /\ pdf_success
    /\ ~zip_success
    /\ StatusOf(crawled_urls, CurUrl) = "partial_success"

\* the values smart_wait can return for the inputs of the last call
WaitValues ==
    {Uniform(WaitLo(wait_type, min_time, current_hour, request_count - 1),
             WaitHi(wait_type, max_time, current_hour, request_count - 1,
                    fat_tail), u) : u \in 0..USteps}

\* C31: request_count is 0 after construction; every smart_wait call adds
\* exactly 1 to it and no other operation of the controller (the two checks,
\* the long rest, the short rest, the passing of time) changes it; the
\* throughput statistics are emitted by exactly the calls that make
\* request_count a multiple of 50, and the wait such a call returns is the
\* value sampled from the same range as for any other call.
C31_RequestCounter ==
    /\ request_count = 0
    /\ [](/\ stats_emitted <=>
               (ctl_op.op = "smart_wait" /\ request_count % STATS_INTERVAL = 0)
          /\ ctl_op.op = "smart_wait" => wait_time \in WaitValues)
    /\ [][/\ ctl_op'.op = "smart_wait" => request_count' = request_count + 1
          /\ ctl_op'.op # "smart_wait" => request_count' = request_count]_vars

\* the fiftieth call, made after a long rest, emitted the statistics
C31_Witness ==
    /\ ctl_op.op = "smart_wait"
    /\ request_count = STATS_INTERVAL
    /\ stats_emitted
    /\ last_break_end # -1
    /\ wait_time \in WaitValues

\* C32: take_big_break sets session_start_time to the clock at the end of
\* the rest, so the runtime ceiling next triggers no sooner than
\* max_continuous_hours after that, and it changes neither request_count nor
\* any other field of the controller; check_short_break and take_short_break
\* leave session_start_time and request_count unchanged; no operation other
\* than take_big_break changes session_start_time.
C32_BigBreakResetsSession ==
    /\ [](/\ last_break_end # -1 => session_start_time = last_break_end
          /\ (ctl_op.op = "check_long" /\ ctl_op.ret /\ last_break_end # -1) =>
                now >= last_break_end + max_continuous_hours * TICKS_PER_HOUR)
    /\ [][/\ ctl_op'.op = "big_break" =>
               /\ session_start_time' = now'
               /\ UNCHANGED waitVars
          /\ ctl_op'.op # "big_break" =>
               session_start_time' = session_start_time
          /\ ctl_op'.op \in {"check_short", "short_break"} =>
               request_count' = request_count]_vars

\* the ceiling triggered a second time, twelve hours or more after the end
\* of the first long rest
C32_Witness ==
    /\ ctl_op.op = "check_long"
    /\ ctl_op.ret
    /\ last_break_end # -1
    /\ session_start_time = last_break_end
    /\ now - session_start_time >= max_continuous_hours * TICKS_PER_HOUR
    /\ request_count > 0

\* C35: for each value of the processed-item count at most one short rest is
\* taken: while the count stays at the same multiple of 50 (items skipped as
\* already done, pages with no new links, items that fail before they are
\* counted), the checks that follow take no further short rest.
C35_OneShortRestPerCount ==
    short_rests <= 1

\* C33: within one outer attempt of the embroidery download_zip_file,
\* solve_captcha_and_click_submit is called at most once (from which the
\* bound of max_retries calls per item would follow).
C33_OneResolverCallPerAttempt ==
    variant = "embroidery" => solves <= 1

\* C34: in an outer attempt whose Locate found no download control,
\* download_zip_file reaches neither the click statement
\* (download_button.click.to_download) nor the href read of the direct
\* download fallback (download_button.attr('href')); the last outer attempt
\* is no exception.
C34_NoTriggerWithoutControl ==
    z_pc \in {"click", "direct"} => download_button

\* C36: in process_download, once a PNG has been moved into save_root and
\* the URL has been marked success, the status the item ends with is
\* success: a failure of the removal of the archive or of the extraction
\* folder afterwards does not turn it into failed.
C36_SuccessSurvivesCleanup ==
    (/\ variant = "tshirt"
     /\ pc = "s_item_end"
     /\ has_png
     /\ "remove" \in Range(item_log)) =>
        StatusOf(scraped_urls, CurUrl) = "success"

\* C37: process_download never overwrites a file of save_root: every PNG is
\* moved to a name that did not exist in save_root when it was moved, the
\* PNGs of one archive get pairwise distinct names, and get_unique_filename
\* terminates (its counter never passes the number of names in save_root by
\* more than one, and the loop over the PNGs reaches its end).
C37_NoOverwrite ==
    /\ [](/\ ~clobbered
          /\ \A i, j \in 1..Len(moved) : i # j => moved[i] # moved[j]
          /\ counter <= Cardinality(save_root) + 1)
    /\ <>(m_pc = "done")

\* both PNGs of an archive titled a were moved while a.png and a(1).png
\* existed: they became a(2).png and a(3).png
C37_Witness ==
    /\ m_pc = "done"
    /\ final_title = <<"a">>
    /\ moved = <<Numbered(TargetName(final_title), 2),
                 Numbered(TargetName(final_title), 3)>>
    /\ ~clobbered

\* C38: scrape() fetches the listing pages 1, 2, 3, ... in this order, each
\* once (the site lists products on at most TOTAL_PAGES pages, so some page
\* lists nothing); it leaves the loop only at a page without links or with
\* the stop flag set by a stale item; the ledger and the browser are closed
\* exactly once when the loop has ended and not before; and every run of
\* scrape() terminates.
C38_ScrapeTerminatesAndCloses ==
    /\ [](variant = "tshirt" =>
            /\ \A i \in 1..Len(page_log) : page_log[i] = Fetched(i)
            /\ (pc = "s_closing" => (page_links = <<>> \/ stop_scraping))
            /\ (exit_path = "loop_end" => (db_closes = 1 /\ page_quits = 1))
            /\ (exit_path # "loop_end" => (db_closes = 0 /\ page_quits = 0)))
    /\ ((variant = "tshirt" /\ pc = "scrape_start") ~> (pc = "stopped"))

\* a run of scrape() that fetched pages 1 and 2, was stopped by a stale item
\* on page 2 and closed the ledger and the browser
C38_Witness ==
    /\ variant = "tshirt"
    /\ pc = "stopped"
    /\ exit_path = "loop_end"
    /\ stop_scraping
    /\ page_log = <<Fetched(1), Fetched(2)>>
    /\ db_closes = 1
    /\ page_quits = 1

C40_ReturnOnlyWhenSolved ==
    /\ solver_out \in {"none"} \cup SOLVER_RETURNS \cup SOLVER_RAISES
    /\ (s_pc \in {"submit", "submit_click", "done"}) => (solver_out # "none")
    /\ (solver_out = "checkbox") =>
          (sc_obs.at = "click" /\ (sc_obs.aria \/ sc_obs.cls))
    /\ (solver_out = "checkbox_late") =>
          (sc_obs.at = "no_iframe" /\ (sc_obs.aria \/ sc_obs.cls))
    /\ (solver_out = "verified") =>
          /\ sc_obs.at = "verify"
          /\ (sc_obs.frame /\ (sc_obs.aria \/ sc_obs.cls)) \/ sc_obs.mark
    /\ (/\ solver_out # "none"
        /\ sc_obs.at \in {"none", "click"}
        /\ ~(sc_obs.aria \/ sc_obs.cls)) =>
          solver_out \in SOLVER_RAISES
    /\ (/\ solver_out # "none"
        /\ sc_obs.at = "no_iframe"
        /\ ~(sc_obs.aria \/ sc_obs.cls)) =>
          solver_out = "no_iframe"
    /\ (/\ solver_out # "none"
        /\ sc_obs.at = "verify"
        /\ ~((sc_obs.frame /\ (sc_obs.aria \/ sc_obs.cls)) \/ sc_obs.mark)) =>
          solver_out = "audio"

\* solveCaptcha returned after the verification: the checkbox inside the
\* frame was not solved, the checkmark had a style attribute
C40_Witness ==
    /\ s_pc = "done"
    /\ solver_out = "verified"
    /\ sc_obs = Obs("verify", TRUE, FALSE, FALSE, TRUE)

====
